---- MODULE Spec2Model ----
(***************************************************************************)
(* A model of the tool-calling core of 200Model8CLI:                       *)
(*   - tools/base.py        BaseTool and ToolRegistry                      *)
(*   - core/api.py          OpenRouterClient (provider routing, retries)   *)
(*   - core/groq_client.py  GroqClient                                     *)
(*   - workflows/workflow_engine.py  WorkflowEngine                        *)
(* Wall-clock durations (time.time(), total_execution_time) and logging    *)
(* are left out: no modelled decision reads them.                          *)
(***************************************************************************)
EXTENDS Integers, Sequences, FiniteSets, TLC

VARIABLES
    tools,            \* ToolRegistry.tools: insertion-ordered dict, a sequence of <<name, tool>>
    categories,       \* ToolRegistry.categories: category -> list of tool names
    enabled,          \* BaseTool.enabled, per tool object
    execution_count,  \* BaseTool.execution_count, per tool object
    error_count,      \* BaseTool.error_count, per tool object
    calls,            \* history: safe_execute invocations made, per tool object
    failures,         \* history: safe_execute invocations that returned a failure result
    last,             \* history: what the caller of the latest execute_tool observed
    handled,          \* history: the tool calls the interactive loop took up, in flight or over
    rpc,              \* chat_completion: where the call stands
    rcall,            \* chat_completion: its arguments (messages, model, tools, stream)
    request,          \* history: the messages of the latest request, as the backend is sent them
    reply,            \* history: the texts the local model answered with, as decoded from the backend's body
    max_retries,      \* OpenRouterClient.max_retries
    attempt,          \* _make_request: the loop variable
    sent,             \* history: requests sent to each backend by this call
    statuses,         \* history: the backend's answers to this call, in order
    slept,            \* history: the delays this call slept, in order
    rout,             \* what chat_completion handed to its caller
    wf,               \* the Workflow object handed to execute_workflow
    wpc,              \* execute_workflow: where the call stands
    wi,               \* execute_workflow: index of the step the loop is at
    wcall,            \* the tool.execute invocation in flight
    invoked,          \* history: the tool invocations started by steps, in order
    wout,             \* what execute_workflow handed to its caller
    templates,        \* WorkflowEngine.templates: name -> template dict
    made              \* history: the calls of create_workflow_from_template, in order

regVars ==
    <<tools, categories, enabled, execution_count, error_count, calls, failures, last, handled>>

routerVars == <<rpc, rcall, request, reply, max_retries, attempt, sent, statuses, slept, rout>>

wfVars == <<wf, wpc, wi, wcall, invoked, wout, templates, made>>

vars == <<regVars, routerVars, wfVars>>

-----------------------------------------------------------------------------
(* Bounds of the model.                                                    *)

\* Registry.execute calls made in one behaviour.
MaxCalls == 2

\* The largest configured retry ceiling (api.max_retries) explored.
MaxRetriesBound == 2

\* The most steps of a workflow handed to execute_workflow.
MaxSteps == 2

\* The most entries of a tool_calls list in the local model's text.
MaxEntries == 2

\* The most messages of a conversation handed to chat_completion.
MaxMessages == 3

\* The most calls of create_workflow_from_template in one behaviour.
MaxInstances == 2
MaxPieces == 2

-----------------------------------------------------------------------------
(* Python values. A value carries its runtime type; bool is a subclass of  *)
(* int, which IsInstance and the numeric comparisons below reproduce.      *)
(* A str is a sequence of text pieces.                                     *)

PyNone == [t |-> "NoneType"]

PyInt(n) == [t |-> "int", v |-> n]

PyFloat(n) == [t |-> "float", v |-> n]

PyBool(b) == [t |-> "bool", v |-> b]

PyStr(s) == [t |-> "str", v |-> s]

PyList(s) == [t |-> "list", v |-> s]

\* A dict value: an insertion-ordered sequence of <<key, value>> pairs.
PyDict(d) == [t |-> "dict", v |-> d]

IsNone(x) == x.t = "NoneType"

\* isinstance(value, (int, float)): True for bool as well.
IsNumeric(x) == x.t \in {"int", "float", "bool"}

\* The number a numeric value compares as (True is 1, False is 0).
Num(x) == IF x.t = "bool" THEN (IF x.v THEN 1 ELSE 0) ELSE x.v

\* Python ==.
PyEq(x, y) ==
    IF IsNumeric(x) /\ IsNumeric(y) THEN Num(x) = Num(y)
    ELSE /\ x.t = y.t
         /\ x.t \in {"str", "list", "dict"} => x.v = y.v

\* Python truthiness: None, "", [], {}, False and 0 are falsy.
Truthy(x) ==
    CASE IsNone(x) -> FALSE
      [] x.t \in {"str", "list", "dict"} -> Len(x.v) > 0
      [] x.t = "bool" -> x.v
      [] x.t \in {"int", "float"} -> x.v # 0
      [] OTHER -> TRUE

Range(s) == {s[i] : i \in 1..Len(s)}

\* list.remove(x): drops the first occurrence.
RECURSIVE ListRemove(_, _)
ListRemove(s, x) ==
    IF s = <<>> THEN <<>>
    ELSE IF Head(s) = x THEN Tail(s)
    ELSE <<Head(s)>> \o ListRemove(Tail(s), x)

\* An insertion-ordered dict as a sequence of <<key, value>> pairs.
DictKeys(d) == {d[i][1] : i \in 1..Len(d)}

DictGet(d, k) == (CHOOSE i \in 1..Len(d) : d[i][1] = k) \* index of key k
DictValue(d, k) == d[DictGet(d, k)][2]

\* d[k] = v: an existing key keeps its position.
DictSet(d, k, v) ==
    IF k \in DictKeys(d)
    THEN [i \in 1..Len(d) |-> IF d[i][1] = k THEN <<k, v>> ELSE d[i]]
    ELSE Append(d, <<k, v>>)

\* del d[k]
RECURSIVE DictDel(_, _)
DictDel(d, k) ==
    IF d = <<>> THEN <<>>
    ELSE IF Head(d)[1] = k THEN Tail(d)
    ELSE <<Head(d)>> \o DictDel(Tail(d), k)

-----------------------------------------------------------------------------
(* ToolParameter, and the tool objects a caller can construct.             *)

ToolParameter(name, type, required, default, enum, pattern, min_value, max_value, min_length, max_length) ==
    [name |-> name, type |-> type, description |-> "about " \o name,
     required |-> required, default |-> default, enum |-> enum,
     pattern |-> pattern, min_value |-> min_value, max_value |-> max_value,
     min_length |-> min_length, max_length |-> max_length]

P_count ==
    ToolParameter("count", "integer", TRUE, PyNone, PyNone, PyNone,
                  PyInt(1), PyInt(3), PyNone, PyNone)

P_mode ==
    ToolParameter("mode", "string", FALSE, PyStr(<<"a">>),
                  PyList(<<PyStr(<<"a">>), PyStr(<<"b">>)>>), PyNone,
                  PyNone, PyNone, PyNone, PyNone)

P_path ==
    ToolParameter("path", "string", TRUE, PyNone, PyNone, PyStr(<<"a">>),
                  PyNone, PyNone, PyInt(1), PyInt(2))

P_ratio ==
    ToolParameter("ratio", "number", FALSE, PyNone, PyNone, PyStr(<<>>),
                  PyInt(0), PyNone, PyNone, PyNone)

\* Tool objects: T1 and T2 carry the same name in different categories; T2
\* declares its parameters the way ExecuteWorkflowTool does, as a schema dict
\* in the attribute `parameters`, and inherits BaseTool.get_parameters.
ToolIds == {"T1", "T2", "T3"}

ToolName(t) == IF t = "T3" THEN "beta" ELSE "alpha"

ToolCategoryOf(t) == IF t = "T2" THEN "custom" ELSE "file_operations"

Names == {ToolName(t) : t \in ToolIds}

HasParametersDict(t) == t = "T2"

\* BaseTool.get_parameters, or a tool's override of it.
GetParameters(t) ==
    CASE t = "T1" -> <<P_count, P_mode>>
      [] t = "T3" -> <<P_path, P_ratio>>
      [] OTHER -> <<>>

\* ExecuteWorkflowTool.parameters
WorkflowToolSchema ==
    [type |-> "object",
     properties |->
        [n \in {"workflow_id", "variables", "is_template"} |->
            CASE n = "workflow_id" ->
                    [k \in {"type", "description"} |->
                        IF k = "type" THEN PyStr(<<"string">>)
                        ELSE PyStr(<<"about workflow_id">>)]
              [] n = "variables" ->
                    [k \in {"type", "description"} |->
                        IF k = "type" THEN PyStr(<<"object">>)
                        ELSE PyStr(<<"about variables">>)]
              [] OTHER ->
                    [k \in {"type", "description", "default"} |->
                        CASE k = "type" -> PyStr(<<"boolean">>)
                          [] k = "description" -> PyStr(<<"about is_template">>)
                          [] OTHER -> PyBool(FALSE)]],
     required |-> <<"workflow_id">>]

\* The keyword parameters of a tool's execute(), and those without a default.
ExecuteSignature(t) ==
    CASE t = "T1" -> [all |-> {"count", "mode"}, needed |-> {"count"}]
      [] t = "T2" -> [all |-> {"workflow_id", "variables", "is_template"},
                      needed |-> {"workflow_id"}]
      [] OTHER -> [all |-> {"path", "ratio"}, needed |-> {"path"}]

-----------------------------------------------------------------------------
(* BaseTool: parameter validation and the safe-execution wrapper.          *)

\* BaseTool._validate_type: isinstance against type_map; an unknown declared
\* type is not checked.
ValidateType(value, expected_type) ==
    CASE expected_type = "string" -> value.t = "str"
      [] expected_type = "integer" -> value.t \in {"int", "bool"}
      [] expected_type = "number" -> value.t \in {"int", "bool", "float"}
      [] expected_type = "boolean" -> value.t = "bool"
      [] expected_type = "array" -> value.t = "list"
      [] expected_type = "object" -> value.t = "dict"
      [] OTHER -> TRUE

\* re.match(pattern, value) for a pattern of literal text: a prefix match.
ReMatch(pattern, value) ==
    /\ Len(pattern) <= Len(value)
    /\ \A i \in 1..Len(pattern) : pattern[i] = value[i]

\* BaseTool._validate_constraints
ValidateConstraints(value, param) ==
    /\ ~(Truthy(param.enum) /\ ~\E i \in 1..Len(param.enum.v) : PyEq(value, param.enum.v[i]))
    /\ ~(Truthy(param.pattern) /\ value.t = "str" /\ ~ReMatch(param.pattern.v, value.v))
    /\ ~(~IsNone(param.min_value) /\ IsNumeric(value) /\ Num(value) < Num(param.min_value))
    /\ ~(~IsNone(param.max_value) /\ IsNumeric(value) /\ Num(value) > Num(param.max_value))
    /\ ~(~IsNone(param.min_length) /\ value.t = "str" /\ Len(value.v) < param.min_length.v)
    /\ ~(~IsNone(param.max_length) /\ value.t = "str" /\ Len(value.v) > param.max_length.v)

\* BaseTool.validate_parameters: kwargs is a function from the supplied names.
ValidateParameters(t, kwargs) ==
    LET parameters == GetParameters(t)
        declared == {parameters[i].name : i \in 1..Len(parameters)}
        \* param_dict: the last parameter of a name wins
        param_dict(n) ==
            parameters[CHOOSE i \in 1..Len(parameters) :
                /\ parameters[i].name = n
                /\ \A j \in (i+1)..Len(parameters) : parameters[j].name # n]
    IN  /\ \A i \in 1..Len(parameters) :
            ~(parameters[i].required /\ parameters[i].name \notin DOMAIN kwargs)
        /\ \A n \in DOMAIN kwargs :
            n \in declared =>
                /\ ValidateType(kwargs[n], param_dict(n).type)
                /\ ValidateConstraints(kwargs[n], param_dict(n))

\* ToolResult (execution_time and metadata left out)
ToolResult(success, result, error) ==
    [success |-> success, result |-> result, error |-> error]

\* Whether execute(**kwargs) binds: every keyword is a parameter of execute and
\* every parameter without a default is supplied. Otherwise the call raises
\* TypeError before the body starts.
Binds(t, kwargs) ==
    /\ DOMAIN kwargs \subseteq ExecuteSignature(t).all
    /\ ExecuteSignature(t).needed \subseteq DOMAIN kwargs

\* What the execution body of a tool may do: return a success result with a
\* payload, return a failure result, or raise an Exception with a message.
BodyOutcomes ==
    {[kind |-> "ok", value |-> PyDict(<<<<"k", PyInt(1)>>>>)],
     [kind |-> "fail", value |-> PyStr(<<"no such file">>)],
     [kind |-> "raise", value |-> PyStr(<<"boom">>)]}

SafeExecuteExcept_Propagates(message, bodyRan) ==
    [result |-> ToolResult(FALSE, PyNone, message),
     bodyRan |-> bodyRan, raised |-> TRUE, dExec |-> 0, dErr |-> 0]

\* except Exception as e: of BaseTool.safe_execute
SafeExecuteExcept(message, bodyRan) ==
    [result |-> ToolResult(FALSE, PyNone,
                           PyStr(<<"Tool execution failed: ">> \o message.v)),
     bodyRan |-> bodyRan, raised |-> FALSE, dExec |-> 1, dErr |-> 1]

\* BaseTool.safe_execute: the result handed back, whether the body ran, whether
\* an exception left the wrapper, and what is added to the two counters.
SafeExecute(t, kwargs, body) ==
    IF ~ValidateParameters(t, kwargs)
    THEN [result |-> ToolResult(FALSE, PyNone, PyStr(<<"Parameter validation failed">>)),
          bodyRan |-> FALSE, raised |-> FALSE, dExec |-> 0, dErr |-> 0]
    ELSE IF ~Binds(t, kwargs)
    THEN SafeExecuteExcept(PyStr(<<"execute() got unexpected or missing arguments">>), FALSE)
    ELSE CASE body.kind = "ok" ->
                [result |-> ToolResult(TRUE, body.value, PyNone),
                 bodyRan |-> TRUE, raised |-> FALSE, dExec |-> 1, dErr |-> 0]
           [] body.kind = "fail" ->
                [result |-> ToolResult(FALSE, PyNone, body.value),
                 bodyRan |-> TRUE, raised |-> FALSE, dExec |-> 1, dErr |-> 1]
           [] OTHER -> SafeExecuteExcept(body.value, TRUE)

-----------------------------------------------------------------------------
(* What makes an argument set invalid for a tool, as the tool's declared   *)
(* parameters read: the declaration list of get_parameters(), or the       *)
(* schema dict of a tool that carries one.                                 *)

\* The runtime type of a value against a declared semantic type.
HasSemanticType(value, type) ==
    CASE type = "string" -> value.t = "str"
      [] type = "integer" -> value.t = "int"
      [] type = "number" -> value.t \in {"int", "float"}
      [] type = "boolean" -> value.t = "bool"
      [] type = "array" -> value.t = "list"
      [] type = "object" -> value.t = "dict"
      [] OTHER -> TRUE

\* name -> [type, required] as declared by either style of tool.
Declared(t) ==
    IF HasParametersDict(t)
    THEN [n \in DOMAIN WorkflowToolSchema.properties |->
             [type |-> WorkflowToolSchema.properties[n]["type"].v[1],
              required |-> n \in Range(WorkflowToolSchema.required)]]
    ELSE LET P == GetParameters(t)
         IN  [n \in {P[i].name : i \in 1..Len(P)} |->
                 LET p == P[CHOOSE i \in 1..Len(P) : P[i].name = n]
                 IN  [type |-> p.type, required |-> p.required]]

\* The reasons for which the argument set kwargs is invalid for tool t.
InvalidReasons(t, kwargs) ==
    LET P == GetParameters(t)
        D == Declared(t)
    IN  (IF \E n \in DOMAIN D : D[n].required /\ n \notin DOMAIN kwargs
         THEN {"missing"} ELSE {})
        \cup
        (IF \E n \in DOMAIN D \cap DOMAIN kwargs : ~HasSemanticType(kwargs[n], D[n].type)
         THEN {"type"} ELSE {})
        \cup
        (IF \E i \in 1..Len(P) :
                /\ P[i].name \in DOMAIN kwargs
                /\ kwargs[P[i].name].t \in {"int", "float"}
                /\ \/ ~IsNone(P[i].min_value) /\ kwargs[P[i].name].v < P[i].min_value.v
                   \/ ~IsNone(P[i].max_value) /\ kwargs[P[i].name].v > P[i].max_value.v
         THEN {"range"} ELSE {})
        \cup
        (IF \E i \in 1..Len(P) :
                /\ P[i].name \in DOMAIN kwargs
                /\ ~IsNone(P[i].enum)
                /\ kwargs[P[i].name] \notin Range(P[i].enum.v)
         THEN {"enum"} ELSE {})

-----------------------------------------------------------------------------
(* ToolRegistry                                                            *)

\* ToolRegistry.get_tool: the tool object, or "none".
GetTool(tool_name) ==
    IF tool_name \in DictKeys(tools) THEN DictValue(tools, tool_name) ELSE "none"

\* ToolRegistry.register_tool, on a registry reg = [tools, categories].
Registered(reg, t) ==
    LET name == ToolName(t)
        cat == ToolCategoryOf(t)
        listed == IF cat \in DOMAIN reg.categories THEN reg.categories[cat] ELSE <<>>
    IN  [tools |-> DictSet(reg.tools, name, t),
         categories |->
              [c \in DOMAIN reg.categories \cup {cat} |->
                  IF c = cat
                  THEN (IF name \in Range(listed) THEN listed ELSE Append(listed, name))
                  ELSE reg.categories[c]]]

RegisterTool(t) ==
    LET reg == Registered([tools |-> tools, categories |-> categories], t)
    IN  /\ tools' = reg.tools
        /\ categories' = reg.categories
        /\ UNCHANGED <<enabled, execution_count, error_count, calls, failures, last, handled,
                     routerVars, wfVars>>

\* ToolRegistry.unregister_tool
UnregisterTool(tool_name) ==
    /\ IF tool_name \notin DictKeys(tools)
       THEN UNCHANGED <<tools, categories>>
       ELSE LET cat == ToolCategoryOf(DictValue(tools, tool_name))
            IN  /\ tools' = DictDel(tools, tool_name)
                /\ categories' =
                      [c \in DOMAIN categories |->
                          IF c = cat /\ tool_name \in Range(categories[c])
                          THEN ListRemove(categories[c], tool_name)
                          ELSE categories[c]]
    /\ UNCHANGED <<enabled, execution_count, error_count, calls, failures, last, handled,
                     routerVars, wfVars>>

\* A write of the public attribute BaseTool.enabled.
SetEnabled(t, b) ==
    /\ enabled' = [enabled EXCEPT ![t] = b]
    /\ UNCHANGED <<tools, categories, execution_count, error_count, calls, failures, last,
                    handled, routerVars, wfVars>>

\* The keyword arguments a caller may pass: for each keyword of a tool's
\* execute(), the values tried for it (of the declared type and of others,
\* inside and outside the declared constraints).
ArgValues(n) ==
    CASE n = "count" -> {PyInt(2), PyInt(0), PyInt(5), PyBool(TRUE), PyStr(<<"a">>)}
      [] n = "mode" -> {PyStr(<<"a">>), PyStr(<<"c">>), PyInt(2)}
      [] n = "path" -> {PyStr(<<"a">>), PyStr(<<"c">>), PyStr(<<"a", "b", "c">>), PyList(<<>>)}
      [] n = "ratio" -> {PyFloat(2), PyInt(0 - 1), PyBool(TRUE), PyStr(<<"a">>)}
      [] n = "workflow_id" -> {PyStr(<<"a">>), PyInt(5)}
      [] n = "is_template" -> {PyBool(TRUE), PyStr(<<"a">>)}
      [] OTHER -> {PyDict(<<>>)}

KwargsOf(t) ==
    IF t = "none" THEN {<<>>}
    ELSE UNION {{f \in [S -> UNION {ArgValues(n) : n \in S}] :
                    \A n \in S : f[n] \in ArgValues(n)} :
                S \in SUBSET ExecuteSignature(t).all}

\* No tool body was started.
NoBody == [kind |-> "none", value |-> PyNone]

\* The two early returns of ToolRegistry.execute_tool.
Dispatch_IgnoreEnabled(tool) ==
    IF tool = "none" THEN "not found" ELSE "run"

Dispatch(tool) ==
    IF tool = "none" THEN "not found"
    ELSE IF ~enabled[tool] THEN "is disabled"
    ELSE "run"

\* ToolRegistry.execute_tool, with BaseTool.safe_execute applied to the tool found.
ExecuteTool(tool_name, kwargs, body) ==
    LET tool == GetTool(tool_name)
        r == IF Dispatch(tool) = "run"
             THEN SafeExecute(tool, kwargs, body)
             ELSE [result |-> ToolResult(FALSE, PyNone,
                                 PyStr(<<"Tool '", tool_name, "' ", Dispatch(tool)>>)),
                   bodyRan |-> FALSE, raised |-> FALSE, dExec |-> 0, dErr |-> 0]
    IN  /\ last.seq < MaxCalls
        /\ last' = [seq |-> last.seq + 1, tool |-> tool,
                    found |-> tool # "none",
                    wasEnabled |-> tool # "none" /\ enabled[tool],
                    kwargs |-> kwargs,
                    invalid |-> IF tool = "none" THEN {} ELSE InvalidReasons(tool, kwargs),
                    body |-> IF r.bodyRan THEN body ELSE NoBody,
                    bodyRan |-> r.bodyRan, raised |-> r.raised,
                    result |-> r.result]
        /\ IF tool = "none"
           THEN UNCHANGED <<execution_count, error_count, calls, failures>>
           ELSE /\ execution_count' = [execution_count EXCEPT ![tool] = @ + r.dExec]
                /\ error_count' = [error_count EXCEPT ![tool] = @ + r.dErr]
                /\ calls' = [calls EXCEPT ![tool] =
                                IF Dispatch(tool) = "run" THEN @ + 1 ELSE @]
                /\ failures' = [failures EXCEPT ![tool] =
                                IF Dispatch(tool) = "run" /\ ~r.result.success
                                THEN @ + 1 ELSE @]
        /\ UNCHANGED <<tools, categories, enabled, handled, routerVars, wfVars>>

\* BaseTool.requires_confirmation and BaseTool.dangerous, or a tool's override:
\* T1 overrides both (as ExecuteCommandTool does), T3 overrides dangerous alone
\* (as ProcessManagerTool does), T2 inherits both.
RequiresConfirmation(t) == t = "T1"

Dangerous(t) == t \in {"T1", "T3"}

Incremented_AcrossAwait(current, at_start) == at_start + 1

\* self.execution_count += 1 and self.error_count += 1 of safe_execute: the
\* counter is read and written with no await in between, whatever its value
\* was when the body was invoked.
Incremented(current, at_start) == current + 1

\* One iteration of InteractiveMode._handle_tool_calls on a tool call of the
\* model, up to the await of the tool body in safe_execute; answer is what
\* Confirm.ask returns when it is asked. Every way out before the body is
\* awaited is taken in this one step.
HandleToolCall(tool_call, answer) ==
    LET tool == GetTool(tool_call.name)
        kwargs == tool_call.arguments.value
        asks == tool # "none" /\ RequiresConfirmation(tool)
        binds == Binds(tool, kwargs)
        entry(state, executed, called) ==
            [name |-> tool_call.name, tool |-> tool, kwargs |-> kwargs,
             asked |-> asks, confirmed |-> asks /\ answer,
             state |-> state, executed |-> executed, invoked |-> called, success |-> FALSE,
             seen |-> IF tool = "none" THEN [executions |-> 0, errors |-> 0]
                      ELSE [executions |-> execution_count[tool],
                            errors |-> error_count[tool]]]
        counts(h) ==
            /\ execution_count' =
                  [execution_count EXCEPT ![tool] = Incremented(@, h.seen.executions)]
            /\ error_count' = [error_count EXCEPT ![tool] = Incremented(@, h.seen.errors)]
    IN  /\ Len(handled) < MaxCalls
        /\ ~asks => answer
        /\ handled' = Append(handled,
              \* json.loads(function["arguments"]) raises: except Exception
              IF ~tool_call.arguments.json THEN entry("raised", FALSE, FALSE)
              \* if not Confirm.ask(...): continue
              ELSE IF asks /\ ~answer THEN entry("declined", FALSE, FALSE)
              \* execute_tool: not found, or disabled
              ELSE IF Dispatch(tool) # "run" THEN entry("refused", TRUE, FALSE)
              \* safe_execute: parameter validation failed
              ELSE IF ~ValidateParameters(tool, kwargs) THEN entry("rejected", TRUE, FALSE)
              \* self.execute(**kwargs) raises TypeError: except Exception
              ELSE IF ~binds THEN entry("returned", TRUE, TRUE)
              ELSE entry("awaiting", TRUE, TRUE))
        /\ IF handled'[Len(handled')].state = "returned"
           THEN counts(handled'[Len(handled')])
           ELSE UNCHANGED <<execution_count, error_count>>
        /\ UNCHANGED <<tools, categories, enabled, calls, failures, last, routerVars, wfVars>>

\* The tool body awaited for the k-th tool call returns or raises, and
\* safe_execute runs on to its return.
BodyReturns(k, body) ==
    /\ k \in 1..Len(handled)
    /\ handled[k].state = "awaiting"
    /\ LET h == handled[k]
           r == SafeExecute(h.tool, h.kwargs, body)
       IN  /\ handled' = [handled EXCEPT ![k].state = "returned",
                                         ![k].success = r.result.success]
           /\ execution_count' =
                 IF r.dExec = 1
                 THEN [execution_count EXCEPT ![h.tool] = Incremented(@, h.seen.executions)]
                 ELSE execution_count
           /\ error_count' =
                 IF r.dErr = 1
                 THEN [error_count EXCEPT ![h.tool] = Incremented(@, h.seen.errors)]
                 ELSE error_count
    /\ UNCHANGED <<tools, categories, enabled, calls, failures, last, routerVars, wfVars>>

PropDef_TypeOnly(param) ==
    [k \in {"type", "description"} |->
        IF k = "type" THEN PyStr(<<param.type>>) ELSE PyStr(<<param.description>>)]

\* BaseTool.get_tool_definition: the schema entry of one declared parameter.
PropDef(param) ==
    LET keys == {"type", "description"}
                \cup (IF Truthy(param.enum) THEN {"enum"} ELSE {})
                \cup (IF Truthy(param.pattern) THEN {"pattern"} ELSE {})
                \cup (IF ~IsNone(param.min_value) THEN {"minimum"} ELSE {})
                \cup (IF ~IsNone(param.max_value) THEN {"maximum"} ELSE {})
                \cup (IF ~IsNone(param.min_length) THEN {"minLength"} ELSE {})
                \cup (IF ~IsNone(param.max_length) THEN {"maxLength"} ELSE {})
                \cup (IF ~IsNone(param.default) THEN {"default"} ELSE {})
    IN  [k \in keys |->
            CASE k = "type" -> PyStr(<<param.type>>)
              [] k = "description" -> PyStr(<<param.description>>)
              [] k = "enum" -> param.enum
              [] k = "pattern" -> param.pattern
              [] k = "minimum" -> param.min_value
              [] k = "maximum" -> param.max_value
              [] k = "minLength" -> param.min_length
              [] k = "maxLength" -> param.max_length
              [] OTHER -> param.default]

\* BaseTool.get_tool_definition
GetToolDefinition(t) ==
    LET parameters == GetParameters(t)
        \* properties[param.name] = prop_def: a later parameter of a name wins
        prop(n) ==
            PropDef(parameters[CHOOSE i \in 1..Len(parameters) :
                /\ parameters[i].name = n
                /\ \A j \in (i+1)..Len(parameters) : parameters[j].name # n])
        IsRequired(p) == p.required
        required == SelectSeq(parameters, IsRequired)
    IN  [name |-> ToolName(t),
         description |-> "does " \o ToolName(t),
         parameters |->
            IF HasParametersDict(t) THEN WorkflowToolSchema
            ELSE [type |-> "object",
                  properties |-> [n \in {parameters[i].name : i \in 1..Len(parameters)} |-> prop(n)],
                  required |-> [i \in 1..Len(required) |-> required[i].name]],
         category |-> ToolCategoryOf(t),
         enabled |-> enabled[t],
         requires_confirmation |-> FALSE,
         dangerous |-> FALSE]

\* ToolRegistry.get_enabled_tools: in the order of the dict.
GetEnabledTools ==
    LET IsEnabled(entry) == enabled[entry[2]]
        kept == SelectSeq(tools, IsEnabled)
    IN  [i \in 1..Len(kept) |-> kept[i][2]]

\* ToolRegistry.get_tool_definitions
GetToolDefinitions ==
    [i \in 1..Len(GetEnabledTools) |->
        LET tool_def == GetToolDefinition(GetEnabledTools[i])
        IN  [type |-> "function",
             function |-> [name |-> tool_def.name,
                           description |-> tool_def.description,
                           parameters |-> tool_def.parameters]]]

-----------------------------------------------------------------------------
(* OpenRouterClient and GroqClient: provider routing and the request loop. *)
(* A model id is the sequence of its "/"-separated segments.               *)

\* GroqClient.AVAILABLE_MODELS (two of its keys)
GroqModels == {<<"llama3-8b-8192">>, <<"qwen", "qwen3-32b">>}

\* Config.default_model
DefaultModel == <<"deepseek", "deepseek-chat-v3-0324:free">>

\* APIConfig.base_retry_delay
BaseDelay == 1

\* APIConfig.max_retries, when the configuration file sets no other.
MaxRetriesDefault == 3

\* model.startswith(prefix + "/")
StartsWith(model, prefix) == Len(model) >= 2 /\ model[1] = prefix

\* model.replace(prefix + "/", ""): every segment `prefix` that a "/" follows goes.
RECURSIVE StripPrefix(_, _)
StripPrefix(model, prefix) ==
    IF Len(model) <= 1 THEN model
    ELSE IF Head(model) = prefix THEN StripPrefix(Tail(model), prefix)
    ELSE <<Head(model)>> \o StripPrefix(Tail(model), prefix)

\* OpenRouterClient._is_groq_model
IsGroqModel(model) == model \in GroqModels

\* The provider path chat_completion takes for a model id.
Route_BareIdFirst(model) ==
    IF IsGroqModel(StripPrefix(model, "ollama")) \/ StartsWith(model, "groq") THEN "groq"
    ELSE IF StartsWith(model, "ollama") THEN "ollama"
    ELSE "default"

Route(model) ==
    IF StartsWith(model, "ollama") THEN "ollama"
    ELSE IF StartsWith(model, "groq") \/ IsGroqModel(model) THEN "groq"
    ELSE "default"

\* An exception: its class and the pieces of its message.
Exc(type, message) == [type |-> type, message |-> message]

\* raise OpenRouterError(f"<prefix>: {e}") in an except Exception handler.
Wrap_KeepType(prefix, e) == Exc(e.type, <<prefix>> \o e.message)

Wrap(prefix, e) == Exc("OpenRouterError", <<prefix>> \o e.message)

RECURSIVE Pow2(_)
Pow2(n) == IF n = 0 THEN 1 ELSE 2 * Pow2(n - 1)

\* What a backend may answer to one request: a network-level failure
\* (httpx.RequestError, status 0 here), or a response with a status code and a
\* body that is JSON or not.
Responses ==
    {[status |-> 0, json |-> FALSE],
     [status |-> 200, json |-> TRUE], [status |-> 200, json |-> FALSE],
     [status |-> 204, json |-> FALSE],
     [status |-> 401, json |-> TRUE], [status |-> 404, json |-> TRUE],
     [status |-> 429, json |-> TRUE], [status |-> 500, json |-> FALSE]}

\* The answers after which _make_request tries again while attempts are left:
\* a network-level failure and HTTP 429.
RetriedStatus_With401(status) == status \in {0, 429, 401}

RetriedStatus(status) == status \in {0, 429}

AttemptsLeft_Always(n) == TRUE

\* Pass n of `for attempt in range(self.max_retries + 1)` is not the last:
\* attempt < self.max_retries
AttemptsLeft(n) == n < max_retries

\* One pass of the loop of OpenRouterClient._make_request on the answer resp:
\* return the parsed body, raise, or go on with the next attempt (after
\* asyncio.sleep(delay) when sleeps is true).
MakeRequestAttempt(resp, n) ==
    LET retry == [act |-> "retry", sleeps |-> TRUE, delay |-> BaseDelay * Pow2(n)]
        raise(type, text) == [act |-> "raise", exc |-> Exc(type, <<text>>)]
    IN  CASE RetriedStatus(resp.status) /\ AttemptsLeft(n) -> retry
          [] resp.status = 0 -> raise("OpenRouterError", "Request failed: network")
          [] resp.status = 200 ->
                IF resp.json THEN [act |-> "return"]
                ELSE raise("JSONDecodeError", "Expecting value")
          [] resp.status = 401 -> raise("AuthenticationError", "Invalid API key")
          [] resp.status = 429 -> raise("RateLimitError", "Rate limit exceeded")
          [] resp.status = 404 ->
                raise("ModelNotFoundError", "Model not found or not available")
          [] resp.status >= 400 -> raise("HTTPStatusError", "Server error")
          [] OTHER ->
                \* raise_for_status() returns: the loop goes on without a sleep
                IF AttemptsLeft(n) THEN [act |-> "retry", sleeps |-> FALSE, delay |-> 0]
                ELSE raise("OpenRouterError", "Max retries exceeded")

NoOutcome == [kind |-> "none"]

Raised(e) == [kind |-> "raise", exc |-> e]

\* ChatResponse(id=..., model=response.get("model", model), ...)
Returned(model) == [kind |-> "response", model |-> model]

\* Message
Message(role, content, tool_calls, tool_call_id) ==
    [role |-> role, content |-> content, tool_calls |-> tool_calls,
     tool_call_id |-> tool_call_id]

\* request_data["messages"] of the default and the Groq path: the optional
\* keys are present when their value is truthy.
RequestMessages(messages) ==
    [i \in 1..Len(messages) |->
        LET msg == messages[i]
            keys == {"role", "content"}
                    \cup (IF Truthy(msg.tool_calls) THEN {"tool_calls"} ELSE {})
                    \cup (IF Truthy(msg.tool_call_id) THEN {"tool_call_id"} ELSE {})
        IN  [k \in keys |-> msg[k]]]

\* ollama_messages of the local path without tools: role and content.
OllamaMessages(messages) ==
    [i \in 1..Len(messages) |-> [k \in {"role", "content"} |-> messages[i][k]]]

\* OpenRouterClient.chat_completion up to its first request.
ChatCompletion(messages, model, with_tools, stream) ==
    LET m == IF model = <<>> THEN DefaultModel ELSE model
    IN  /\ rpc = "idle"
        /\ rcall' = [messages |-> messages, model |-> m, tools |-> with_tools, stream |-> stream]
        /\ IF messages = <<>>
           THEN /\ rpc' = "done"
                /\ rout' = Raised(Exc("ValueError", <<"Messages cannot be empty">>))
           ELSE IF Route(m) = "default" /\ stream
           THEN \* the coroutine of _make_request is returned, not awaited
                /\ rpc' = "done"
                /\ rout' = [kind |-> "coroutine"]
           ELSE /\ rpc' = Route(m)
                /\ rout' = rout
        /\ UNCHANGED <<request, reply, max_retries, attempt, sent, statuses, slept, regVars, wfVars>>

\* The default hosted path: one request of _make_request and what follows it,
\* with the except Exception handler of chat_completion.
DefaultAttempt(resp) ==
    LET step == MakeRequestAttempt(resp, attempt)
    IN  /\ rpc = "default"
        /\ sent' = [sent EXCEPT !.default = @ + 1]
        /\ statuses' = Append(statuses, resp.status)
        /\ CASE step.act = "retry" ->
                  /\ attempt' = attempt + 1
                  /\ slept' = IF step.sleeps THEN Append(slept, step.delay) ELSE slept
                  /\ UNCHANGED <<rpc, rout>>
             [] step.act = "return" ->
                  /\ rpc' = "done"
                  /\ rout' = Returned(rcall.model)
                  /\ UNCHANGED <<attempt, slept>>
             [] OTHER ->
                  /\ rpc' = "done"
                  /\ rout' = Raised(Wrap("Chat completion failed: ", step.exc))
                  /\ UNCHANGED <<attempt, slept>>
        /\ request' = RequestMessages(rcall.messages)
        /\ UNCHANGED <<rcall, reply, max_retries, regVars, wfVars>>

\* The Groq path: _handle_groq_completion around GroqClient.chat_completion,
\* which posts once.
GroqRequest(resp) ==
    LET inner ==
            CASE resp.status = 0 -> Wrap("Groq request failed: ", Exc("RequestError", <<"network">>))
              [] resp.status # 200 ->
                    Wrap("Groq chat completion failed: ",
                         Exc("OpenRouterError", <<"Groq API error: ", resp.status>>))
              [] OTHER -> Wrap("Groq chat completion failed: ",
                               Exc("JSONDecodeError", <<"Expecting value">>))
    IN  /\ rpc = "groq"
        /\ request' = RequestMessages(rcall.messages)
        /\ sent' = [sent EXCEPT !.groq = @ + 1]
        /\ statuses' = Append(statuses, resp.status)
        /\ rpc' = "done"
        /\ rout' = IF resp.status = 200 /\ resp.json
                   THEN Returned(StripPrefix(rcall.model, "groq"))
                   ELSE Raised(Wrap("Groq completion failed: ", inner))
        /\ UNCHANGED <<rcall, reply, max_retries, attempt, slept, regVars, wfVars>>

\* The local path: _handle_ollama_completion, which asks OllamaClient whether
\* the service answers and then posts once.
OllamaAvailable(resp) ==
    /\ rpc = "ollama"
    /\ sent' = [sent EXCEPT !.ollama = @ + 1]
    /\ statuses' = Append(statuses, resp.status)
    /\ IF resp.status = 200
       THEN rpc' = "ollama_chat" /\ rout' = rout
       ELSE /\ rpc' = "done"
            /\ rout' = Raised(Wrap("Ollama completion failed: ",
                          Exc("OpenRouterError", <<"Ollama is not running.">>)))
    /\ UNCHANGED <<rcall, request, reply, max_retries, attempt, slept, regVars, wfVars>>

OllamaRequest(resp) ==
    LET inner ==
            IF resp.status = 0 THEN Exc("RequestError", <<"network">>)
            ELSE IF resp.status >= 400 THEN Exc("HTTPStatusError", <<"error status">>)
            ELSE Exc("JSONDecodeError", <<"Expecting value">>)
        \* a streamed answer is an async generator: it has no attribute message
        failed == IF rcall.stream /\ resp.status \in {200, 204}
                  THEN Exc("AttributeError", <<"no attribute 'message'">>)
                  ELSE Exc("Exception", <<"Ollama chat completion failed: ">> \o inner.message)
    IN  /\ rpc = "ollama_chat"
        /\ ~rcall.tools
        /\ request' = OllamaMessages(rcall.messages)
        /\ sent' = [sent EXCEPT !.ollama = @ + 1]
        /\ statuses' = Append(statuses, resp.status)
        /\ rpc' = "done"
        /\ rout' = IF resp.status = 200 /\ resp.json /\ ~rcall.stream
                   THEN Returned(rcall.model)
                   ELSE Raised(Wrap("Ollama completion failed: ", failed))
        /\ UNCHANGED <<rcall, reply, max_retries, attempt, slept, regVars, wfVars>>

\* The model ids and message lists callers pass; <<>> stands for no model id.
ModelIds ==
    {<<>>, <<"openai", "gpt-4">>, <<"ollama">>, <<"ollama", "llama3">>,
     <<"ollama", "llama3-8b-8192">>, <<"ollama", "qwen", "qwen3-32b">>,
     <<"groq", "llama3-8b-8192">>, <<"groq", "mixtral">>,
     <<"llama3-8b-8192">>, <<"qwen", "qwen3-32b">>}

MessageLists == {<<>>, <<Message("user", "m1", PyNone, PyNone)>>}

-----------------------------------------------------------------------------
(* OllamaClient: tool calling emulated through the prompt. The text of the *)
(* local model is a sequence of segments: prose without braces, the text   *)
(* of one complete JSON object, an object cut off before any closing       *)
(* brace, and prose that holds a closing brace.                            *)

Prose(s) == [k |-> "prose", s |-> s]

Json(value) == [k |-> "json", v |-> value]

\* `{"tool_calls": [{"id": "call_0", "function": {"name": ` and nothing more
Cut == [k |-> "cut"]

Closing == [k |-> "close"]

\* Whether the JSON text of a value holds the characters "tool_calls".
RECURSIVE Mentions(_)
Mentions(value) ==
    CASE value.t = "str" -> value.v = <<"tool_calls">>
      [] value.t = "list" -> \E i \in 1..Len(value.v) : Mentions(value.v[i])
      [] value.t = "dict" ->
            \E i \in 1..Len(value.v) :
                value.v[i][1] = "tool_calls" \/ Mentions(value.v[i][2])
      [] OTHER -> FALSE

\* re.search(r'\{.*"tool_calls".*\}', text, re.DOTALL): the match starts at
\* the first opening brace that has the key text and a closing brace after
\* it, and, the pattern being greedy, ends at the last closing brace.
ReSearch(text) ==
    LET opens(i) == text[i].k \in {"json", "cut"}
        keyed(i) == text[i].k = "cut" \/ (text[i].k = "json" /\ Mentions(text[i].v))
        closes(i) == text[i].k \in {"json", "close"}
        starts == {i \in 1..Len(text) :
                      /\ opens(i)
                      /\ \E j \in i..Len(text) : keyed(j) /\
                            \E n \in j..Len(text) : closes(n) /\ (n > j \/ text[j].k = "json")}
        first == CHOOSE i \in starts : \A j \in starts : i <= j
        last_close == CHOOSE n \in 1..Len(text) :
                         closes(n) /\ \A j \in (n + 1)..Len(text) : ~closes(j)
    IN  IF starts = {} THEN [found |-> FALSE, from |-> 0, to |-> 0]
        ELSE [found |-> TRUE, from |-> first, to |-> last_close]

\* json.loads(json_match.group(0)): the span decodes when it is the text of
\* one JSON object, and raises JSONDecodeError otherwise.
JsonLoads(text, match) ==
    IF match.from = match.to /\ text[match.from].k = "json"
    THEN [raised |-> FALSE, value |-> text[match.from].v]
    ELSE [raised |-> TRUE, value |-> PyNone]

\* Whether `for call in value` iterates (a TypeError is raised otherwise).
Iterable(value) == value.t \in {"list", "str", "dict"}

\* The items `for call in value` visits: the elements of a list, the
\* characters of a str, the keys of a dict.
Items(value) ==
    CASE value.t = "list" -> value.v
      [] value.t = "str" -> [i \in 1..Len(value.v) |-> PyStr(<<value.v[i]>>)]
      [] OTHER -> [i \in 1..Len(value.v) |-> PyStr(<<value.v[i][1]>>)]

\* d.get(key, default) of a dict value.
Get(d, key, default) ==
    IF key \in DictKeys(d.v) THEN DictValue(d.v, key) ELSE default

ParsedCalls(formatted) == [raised |-> FALSE, calls |-> formatted]

\* The loop of _parse_tool_calls over the entries; an entry whose `function`
\* has no .get raises AttributeError, which the parser answers with [].
RECURSIVE FormatCalls(_, _)
FormatCalls(entries, formatted_calls) ==
    IF entries = <<>> THEN ParsedCalls(formatted_calls)
    ELSE LET call == Head(entries)
         IN  IF call.t = "dict" /\ "function" \in DictKeys(call.v)
             THEN LET function == DictValue(call.v, "function")
                  IN  IF function.t # "dict" THEN ParsedCalls(<<>>)
                      ELSE FormatCalls(Tail(entries),
                             Append(formatted_calls,
                                [id |-> Get(call, "id",
                                            PyStr(<<"call_", ToString(Len(formatted_calls))>>)),
                                 type |-> "function",
                                 function |->
                                    [name |-> Get(function, "name", PyStr(<<>>)),
                                     arguments |-> Get(function, "arguments", PyStr(<<"{}">>))]]))
             ELSE FormatCalls(Tail(entries), formatted_calls)

\* OllamaClient._parse_tool_calls: the formatted calls, or raised when an
\* exception other than JSONDecodeError, KeyError, AttributeError leaves it.
ParseToolCalls(text) ==
    LET match == ReSearch(text)
        loaded == JsonLoads(text, match)
    IN  IF ~match.found \/ loaded.raised THEN ParsedCalls(<<>>)
        ELSE IF "tool_calls" \notin DictKeys(loaded.value.v) THEN ParsedCalls(<<>>)
        ELSE LET tool_calls == DictValue(loaded.value.v, "tool_calls")
             IN  IF ~Iterable(tool_calls) THEN [raised |-> TRUE, calls |-> <<>>]
                 ELSE FormatCalls(Items(tool_calls), <<>>)

\* The conversation part of OllamaClient._create_tool_calling_prompt, as the
\* lines of the prompt: a user or assistant turn is appended, a system turn
\* is put in front, a turn of another role adds nothing.
RECURSIVE CreateToolCallingPrompt(_, _)
CreateToolCallingPrompt(messages, conversation) ==
    IF messages = <<>> THEN conversation
    ELSE LET msg == Head(messages)
             line(label) == [label |-> label, content |-> msg.content]
         IN  CreateToolCallingPrompt(Tail(messages),
                CASE msg.role = "user" -> Append(conversation, line("Human: "))
                  [] msg.role = "assistant" -> Append(conversation, line("Assistant: "))
                  [] msg.role = "system" -> <<line("System: ")>> \o conversation
                  [] OTHER -> conversation)

MessageContent_Null(text, formatted) == PyNone

\* "content": response_content if not tool_calls else None
MessageContent(text, formatted) ==
    IF formatted = <<>> THEN PyStr(text) ELSE PyNone

\* OllamaClient._handle_tool_calling_completion on the backend's answer, the
\* text being the content of the answer's message: the message of the
\* ChatResponse (tool_calls empty stands for the key being absent), or the
\* exception raised.
HandleToolCallingCompletion(resp, text) ==
    LET fail(inner) ==
            [raised |-> TRUE,
             exc |-> Exc("Exception", <<"Ollama tool calling failed: ">> \o inner.message)]
        parsed == ParseToolCalls(text)
    IN  IF resp.status = 0 THEN fail(Exc("RequestError", <<"network">>))
        ELSE IF resp.status >= 400 THEN fail(Exc("HTTPStatusError", <<"error status">>))
        ELSE IF ~resp.json THEN fail(Exc("JSONDecodeError", <<"Expecting value">>))
        ELSE IF parsed.raised THEN fail(Exc("TypeError", <<"object is not iterable">>))
        ELSE [raised |-> FALSE,
              message |-> [role |-> "assistant",
                           content |-> MessageContent(text, parsed.calls),
                           tool_calls |-> parsed.calls]]

\* ChatResponse(choices=[{"message": message}]) of _handle_ollama_completion
ReturnedMessage(model, message) ==
    [kind |-> "response", model |-> model, message |-> message]

\* The local path with tools: OllamaClient.chat_completion hands over to
\* _handle_tool_calling_completion, and _handle_ollama_completion converts
\* the answer.
OllamaToolRequest(resp, text) ==
    LET r == HandleToolCallingCompletion(resp, text)
    IN  /\ rpc = "ollama_chat"
        /\ rcall.tools
        /\ request' = <<[role |-> "user",
                         content |-> CreateToolCallingPrompt(rcall.messages, <<>>)]>>
        /\ reply' = IF resp.status \in 1..399 /\ resp.json THEN Append(reply, text) ELSE reply
        /\ sent' = [sent EXCEPT !.ollama = @ + 1]
        /\ statuses' = Append(statuses, resp.status)
        /\ rpc' = "done"
        /\ rout' = IF r.raised
                   THEN Raised(Wrap("Ollama completion failed: ",
                           Exc("Exception", <<"Ollama chat completion failed: ">> \o r.exc.message)))
                   ELSE ReturnedMessage(rcall.model,
                           [role |-> "assistant",
                            content |-> IF r.message.tool_calls # <<>> THEN PyNone
                                        ELSE r.message.content,
                            tool_calls |-> r.message.tool_calls])
        /\ UNCHANGED <<rcall, max_retries, attempt, slept, regVars, wfVars>>

\* The entries a model may put in its tool_calls list.
CallEntry(pairs) == PyDict(pairs)

FunctionOf(arguments) ==
    PyDict(<<<<"name", PyStr(<<"beta">>)>>, <<"arguments", arguments>>>>)

Entries ==
    {CallEntry(<<<<"id", PyStr(<<"call_", "1">>)>>, <<"type", PyStr(<<"function">>)>>,
                 <<"function", FunctionOf(PyStr(<<"{\"path\": \"a\"}">>))>>>>),
     CallEntry(<<<<"function", FunctionOf(PyStr(<<"{\"path\": \"a\"}">>))>>>>),
     CallEntry(<<<<"function", FunctionOf(PyDict(<<<<"path", PyStr(<<"a">>)>>>>))>>>>),
     CallEntry(<<<<"id", PyStr(<<"call_", "0">>)>>>>),
     CallEntry(<<<<"function", PyStr(<<"beta">>)>>>>),
     PyStr(<<"beta">>)}

RECURSIVE EntryLists(_)
EntryLists(n) ==
    IF n = 0 THEN {<<>>}
    ELSE {Append(entries, e) : entries \in EntryLists(n - 1), e \in Entries}

\* The values a model may give the key tool_calls.
ToolCallsValues ==
    {PyList(entries) : entries \in UNION {EntryLists(n) : n \in 0..MaxEntries}}
    \cup {PyNone, PyInt(1), PyStr(<<"beta">>), PyDict(<<<<"name", PyStr(<<"beta">>)>>>>)}

\* The texts the local model may answer with.
ModelTexts ==
    LET object(value) == Json(PyDict(<<<<"tool_calls", value>>>>))
        other == Json(PyDict(<<<<"a", PyInt(1)>>>>))
        note == Json(PyDict(<<<<"note", PyStr(<<"tool_calls">>)>>>>))
        valid == object(PyList(<<CallEntry(<<<<"function", FunctionOf(PyStr(<<"{}">>))>>>>)>>))
    IN  {<<object(value)>> : value \in ToolCallsValues}
        \cup {<<Prose("Sure: "), object(value), Prose(" done.")>> : value \in ToolCallsValues}
        \cup {<<>>, <<Prose("hello")>>, <<Cut>>, <<Prose("Sure: "), Cut>>,
              <<valid, Closing>>, <<other, valid>>, <<note>>}

\* The message lists of a conversation: the turn at position i has content
\* m<i>; a tool turn carries the id of the call it answers.
MessageAt(role, i) ==
    Message(role, "m" \o ToString(i), PyNone,
            IF role = "tool" THEN PyStr(<<"call_", "0">>) ELSE PyNone)

RECURSIVE Conversations(_)
Conversations(n) ==
    IF n = 0 THEN {<<>>}
    ELSE {Append(messages, MessageAt(role, n)) :
            messages \in Conversations(n - 1),
            role \in {"system", "user", "assistant", "tool"}}

ChatMessageLists == UNION {Conversations(n) : n \in 1..MaxMessages}

ChatModelIds == {<<"openai", "gpt-4">>, <<"groq", "llama3-8b-8192">>, <<"ollama", "llama3">>}

-----------------------------------------------------------------------------
(* WorkflowEngine: variable substitution and condition evaluation.         *)

\* WorkflowStep, as its constructor leaves it; history records the statuses
\* assigned to the step, in the order of the assignments.
WorkflowStep(id, name, tool, parameters, condition, retries, on_failure) ==
    [id |-> id, name |-> name, tool |-> tool, parameters |-> parameters,
     condition |-> condition, retry_count |-> 0, max_retries |-> retries,
     on_failure |-> on_failure, status |-> "pending", result |-> PyNone,
     error |-> PyNone, history |-> <<"pending">>]

\* Workflow, as its constructor leaves it.
Workflow(id, steps, variables) ==
    [id |-> id, steps |-> steps, variables |-> variables,
     status |-> "pending", error |-> PyNone]

\* str(value) and repr(value), as sequences of text pieces.
RECURSIVE Str(_), Repr(_), ReprItems(_), ReprPairs(_)
Str(value) ==
    CASE value.t = "str" -> value.v
      [] value.t = "bool" -> IF value.v THEN <<"True">> ELSE <<"False">>
      [] value.t = "int" -> <<ToString(value.v)>>
      [] value.t = "float" -> <<ToString(value.v) \o ".0">>
      [] value.t = "NoneType" -> <<"None">>
      [] value.t = "list" -> <<"[">> \o ReprItems(value.v) \o <<"]">>
      [] OTHER -> <<"{">> \o ReprPairs(value.v) \o <<"}">>

Repr(value) ==
    IF value.t = "str" THEN <<"'">> \o value.v \o <<"'">> ELSE Str(value)

ReprItems(s) ==
    IF s = <<>> THEN <<>>
    ELSE Repr(Head(s)) \o (IF Tail(s) = <<>> THEN <<>> ELSE <<", ">>) \o ReprItems(Tail(s))

ReprPairs(d) ==
    IF d = <<>> THEN <<>>
    ELSE <<"'", Head(d)[1], "': ">> \o Repr(Head(d)[2])
         \o (IF Tail(d) = <<>> THEN <<>> ELSE <<", ">>) \o ReprPairs(Tail(d))

\* f"{{{{{key}}}}}"
Placeholder(key) == "{{" \o key \o "}}"

\* obj.replace(placeholder, replacement), on text whose pieces are
\* placeholders and literal text.
RECURSIVE Replace(_, _, _)
Replace(text, placeholder, replacement) ==
    IF text = <<>> THEN <<>>
    ELSE (IF Head(text) = placeholder THEN replacement ELSE <<Head(text)>>)
         \o Replace(Tail(text), placeholder, replacement)

\* for key, value in variables.items(): obj = obj.replace(placeholder, str(value))
RECURSIVE ReplaceEach(_, _)
ReplaceEach(text, variables) ==
    IF variables = <<>> THEN text
    ELSE ReplaceEach(Replace(text, Placeholder(Head(variables)[1]), Str(Head(variables)[2])),
                     Tail(variables))

\* WorkflowEngine._substitute_variables; the clock readings are opaque text.
RECURSIVE SubstituteVariables(_, _)
SubstituteVariables(obj, variables) ==
    CASE obj.t = "str" ->
            LET now == Replace(obj.v, "{{now}}", <<"<isoformat>">>)
                timestamp == Replace(now, "{{timestamp}}", <<"<strftime>">>)
            IN  PyStr(ReplaceEach(timestamp, variables))
      [] obj.t = "dict" ->
            PyDict([i \in 1..Len(obj.v) |->
                       <<obj.v[i][1], SubstituteVariables(obj.v[i][2], variables)>>])
      [] obj.t = "list" ->
            PyList([i \in 1..Len(obj.v) |-> SubstituteVariables(obj.v[i], variables)])
      [] OTHER -> obj

\* _substitute_variables on step.parameters, a dict of keyword arguments.
SubstituteParameters(parameters, variables) ==
    [n \in DOMAIN parameters |-> SubstituteVariables(parameters[n], variables)]

\* The text pieces eval() reads as a literal, and their values.
Literals == {"True", "False", "None", "0", "1"}

LiteralValue(piece) ==
    CASE piece = "True" -> PyBool(TRUE)
      [] piece = "False" -> PyBool(FALSE)
      [] piece = "None" -> PyNone
      [] piece = "0" -> PyInt(0)
      [] OTHER -> PyInt(1)

\* eval(condition) on `operand` and `operand == operand`: a piece that is not
\* a literal (a bare name, an unreplaced placeholder) makes eval raise.
Eval(text) ==
    CASE Len(text) = 1 /\ text[1] \in Literals ->
            [raised |-> FALSE, value |-> LiteralValue(text[1])]
      [] Len(text) = 3 /\ text[2] = "==" /\ text[1] \in Literals /\ text[3] \in Literals ->
            [raised |-> FALSE,
             value |-> PyBool(PyEq(LiteralValue(text[1]), LiteralValue(text[3])))]
      [] OTHER -> [raised |-> TRUE, value |-> PyNone]

EvaluateCondition_FailClosed(condition, variables) ==
    LET r == Eval(ReplaceEach(condition, variables))
    IN  IF r.raised THEN PyBool(FALSE) ELSE r.value

\* WorkflowEngine._evaluate_condition
EvaluateCondition(condition, variables) ==
    LET r == Eval(ReplaceEach(condition, variables))
    IN  IF r.raised THEN PyBool(TRUE) ELSE r.value

-----------------------------------------------------------------------------
(* WorkflowEngine.execute_workflow. The engine runs without interruption   *)
(* from one await of tool.execute to the next.                             *)

NoInvocation == [step |-> 0, tool |-> "none", parameters |-> <<>>, retry |-> FALSE]

\* variables.update(other)
RECURSIVE DictUpdate(_, _)
DictUpdate(d, other) ==
    IF other = <<>> THEN d
    ELSE DictUpdate(DictSet(d, Head(other)[1], Head(other)[2]), Tail(other))

StepFailed(w, i, error) ==
    [w EXCEPT !.steps[i].status = "failed",
              !.steps[i].history = Append(@, "failed"),
              !.steps[i].error = error]

\* _execute_step up to the await of tool.execute(**parameters): the tool is
\* taken from tool_registry.tools and its execute is called directly.
BeginStep(w, i, retry) ==
    LET step == w.steps[i]
        running == [w EXCEPT !.steps[i].status = "running",
                             !.steps[i].history = Append(@, "running")]
        parameters == SubstituteParameters(step.parameters, w.variables)
        tool == GetTool(step.tool)
    IN  IF step.tool \notin DictKeys(tools)
        THEN [wf |-> StepFailed(running, i, PyStr(<<"Tool '" \o step.tool \o "' not found">>)),
              call |-> NoInvocation]
        ELSE IF ~Binds(tool, parameters)
        THEN [wf |-> StepFailed(running, i,
                        PyStr(<<"execute() got unexpected or missing arguments">>)),
              call |-> NoInvocation]
        ELSE [wf |-> running,
              call |-> [step |-> i, tool |-> tool, parameters |-> parameters,
                        retry |-> retry]]

EndStep_LeavesRunning(w, i, body) == w

\* _execute_step from the return of tool.execute on.
EndStep(w, i, body) ==
    LET step == w.steps[i]
    IN  CASE body.kind = "ok" ->
                [w EXCEPT !.steps[i].result = ToolResult(TRUE, body.value, PyNone),
                          !.steps[i].status = "completed",
                          !.steps[i].history = Append(@, "completed"),
                          !.variables =
                              IF Truthy(body.value) /\ body.value.t = "dict"
                              THEN DictSet(@, step.id \o "_result", body.value)
                              ELSE @]
          [] body.kind = "fail" ->
                [w EXCEPT !.steps[i].result = ToolResult(FALSE, PyNone, body.value),
                          !.steps[i].status = "failed",
                          !.steps[i].history = Append(@, "failed"),
                          !.steps[i].error = body.value]
          [] OTHER -> StepFailed(w, i, body.value)

Finish_IgnoreFailed(w, i) ==
    [wf |-> IF w.status # "running" THEN w ELSE [w EXCEPT !.status = "completed"],
     pc |-> "done", i |-> i, call |-> NoInvocation]

\* execute_workflow from "Update final status" to its return.
Finish(w, i) ==
    LET IsFailed(s) == s.status = "failed"
        failed_steps == SelectSeq(w.steps, IsFailed)
        names == PyList([j \in 1..Len(failed_steps) |-> PyStr(<<failed_steps[j].name>>)])
    IN  [wf |-> IF w.status # "running" THEN w
                ELSE IF failed_steps # <<>>
                THEN [w EXCEPT !.status = "failed",
                               !.error = PyStr(<<"Failed steps: ">> \o Str(names))]
                ELSE [w EXCEPT !.status = "completed"],
         pc |-> "done", i |-> i, call |-> NoInvocation]

Awaiting(b, i) == [wf |-> b.wf, pc |-> "await", i |-> i, call |-> b.call]

Cancelled_Never(w) == FALSE

\* if workflow.status == WorkflowStatus.CANCELLED: break
Cancelled(w) == w.status = "cancelled"

StopWorkflow_KeepRunning(w, step) == w

\* workflow.status = WorkflowStatus.FAILED; workflow.error = step.error
StopWorkflow(w, step) == [w EXCEPT !.status = "failed", !.error = step.error]

MayRetry_AnyPolicy(step) == step.retry_count < step.max_retries

\* elif step.on_failure == "retry" and step.retry_count < step.max_retries
MayRetry(step) == step.on_failure = "retry" /\ step.retry_count < step.max_retries

\* The loop of execute_workflow from the top of the iteration of step i
\* (RunLoop), and from "Handle step failure" of step i (HandleFailure), up to
\* the next await or the return.
RECURSIVE RunLoop(_, _), HandleFailure(_, _)
RunLoop(w, i) ==
    IF i > Len(w.steps) \/ Cancelled(w) THEN Finish(w, i)
    ELSE IF /\ Truthy(w.steps[i].condition)
            /\ ~Truthy(EvaluateCondition(w.steps[i].condition.v, w.variables))
    THEN RunLoop([w EXCEPT !.steps[i].status = "skipped",
                           !.steps[i].history = Append(@, "skipped")], i + 1)
    ELSE LET b == BeginStep(w, i, FALSE)
         IN  IF b.call # NoInvocation THEN Awaiting(b, i) ELSE HandleFailure(b.wf, i)

HandleFailure(w, i) ==
    LET step == w.steps[i]
    IN  IF step.status # "failed" THEN RunLoop(w, i + 1)
        ELSE IF step.on_failure = "stop"
        THEN Finish(StopWorkflow(w, step), i)
        ELSE IF MayRetry(step)
        THEN LET b == BeginStep([w EXCEPT !.steps[i].retry_count = @ + 1,
                                          !.steps[i].status = "pending",
                                          !.steps[i].history = Append(@, "pending")],
                                i, TRUE)
             IN  IF b.call # NoInvocation THEN Awaiting(b, i) ELSE RunLoop(b.wf, i + 1)
        ELSE RunLoop(w, i + 1)

\* The workflow at hand was made by create_workflow_from_template: its
\* variables are the dict object of the template it was made from, so that
\* a write to the one is a write to the other.
FromTemplate == \E n \in 1..Len(made) : made[n].found

\* What execute_workflow hands to its caller: the workflow object.
ReturnedWorkflow == [kind |-> "workflow"]

\* The engine has run up to r: an await or the return.
EngineAt(r) ==
    /\ wf' = r.wf
    /\ wpc' = r.pc
    /\ wi' = r.i
    /\ wcall' = r.call
    /\ invoked' = IF r.pc = "await"
                  THEN Append(invoked, [step |-> r.wf.steps[r.i].id, tool |-> r.call.tool,
                                        parameters |-> r.call.parameters])
                  ELSE invoked
    /\ wout' = IF r.pc = "done" THEN ReturnedWorkflow ELSE wout
    /\ templates' =
          IF FromTemplate
          THEN LET n == CHOOSE n \in 1..Len(made) :
                           made[n].found /\ \A k \in (n + 1)..Len(made) : ~made[k].found
               IN  [templates EXCEPT ![made[n].template].variables = r.wf.variables]
          ELSE templates
    /\ made' = made

\* WorkflowEngine.execute_workflow(workflow, variables), up to its first await.
ExecuteWorkflow(variables) ==
    /\ wpc = "idle"
    /\ EngineAt(RunLoop([wf EXCEPT !.status = "running",
                                   !.variables = DictUpdate(@, variables)], 1))
    /\ UNCHANGED <<regVars, routerVars>>

\* The tool.execute a step awaits returns or raises, and the engine goes on.
ToolReturns(body) ==
    /\ wpc = "await"
    /\ LET w == EndStep(wf, wcall.step, body)
       IN  EngineAt(IF wcall.retry THEN RunLoop(w, wi + 1) ELSE HandleFailure(w, wi))
    /\ UNCHANGED <<regVars, routerVars>>

\* An external actor marks the running workflow cancelled.
Cancel ==
    /\ wf.status = "running"
    /\ wf' = [wf EXCEPT !.status = "cancelled"]
    /\ UNCHANGED <<wpc, wi, wcall, invoked, wout, templates, made, regVars, routerVars>>

\* WorkflowEngine.create_workflow_from_template(template_name, workflow_id,
\* variables); the workflow it returns is the one the caller goes on with.
CreateWorkflowFromTemplate(template_name, workflow_id, variables) ==
    /\ wpc \in {"idle", "done"}
    /\ Len(made) < MaxInstances
    /\ IF template_name \notin DOMAIN templates
       THEN /\ made' = Append(made, [template |-> template_name, id |-> workflow_id,
                                      variables |-> variables, found |-> FALSE,
                                      bag |-> <<>>])
            /\ UNCHANGED <<wf, wpc, wi, wcall, invoked, wout, templates>>
       ELSE LET template == templates[template_name]
                steps == [i \in 1..Len(template.steps) |->
                            LET step_dict == template.steps[i]
                            IN  WorkflowStep(step_dict.id, step_dict.name, step_dict.tool,
                                             step_dict.parameters, PyNone, 3, "stop")]
                workflow_variables ==
                    IF variables # <<>> THEN DictUpdate(template.variables, variables)
                    ELSE template.variables
            IN  /\ templates' = [templates EXCEPT ![template_name].variables =
                                                      workflow_variables]
                /\ wf' = Workflow(workflow_id, steps, workflow_variables)
                /\ made' = Append(made, [template |-> template_name, id |-> workflow_id,
                                          variables |-> variables, found |-> TRUE,
                                          bag |-> workflow_variables])
                /\ wpc' = "idle"
                /\ wi' = 0
                /\ wcall' = NoInvocation
                /\ invoked' = <<>>
                /\ wout' = NoOutcome
    /\ UNCHANGED <<regVars, routerVars>>

\* The built-in templates, as WorkflowEngine.__init__ builds them: here one
\* template of one step with two default variables.
BuiltInTemplates ==
    [n \in {"review"} |->
        [name |-> "Review", description |-> "review",
         steps |-> <<[id |-> "s1", name |-> "step 1", tool |-> "beta",
                      parameters |-> [k \in {"path"} |-> PyStr(<<"{{name}}">>)]]>>,
         variables |-> <<<<"flag", PyBool(FALSE)>>, <<"name", PyStr(<<"hello">>)>>>>]]

\* The results a tool body hands to a step.
StepBodyOutcomes ==
    BodyOutcomes \cup {[kind |-> "ok", value |-> PyDict(<<>>)],
                       [kind |-> "ok", value |-> PyStr(<<"hello">>)]}

\* The result of an echo tool for the call in flight: the payload is the
\* call's string parameter unchanged.
Echo(call) ==
    IF "path" \in DOMAIN call.parameters
    THEN {[kind |-> "ok", value |-> call.parameters["path"]]}
    ELSE {}

\* The steps and workflows explored.
StepTools == Names \cup {"gamma"}

StepParameters(tool_name, i) ==
    CASE tool_name = "beta" ->
            [n \in {"path"} |-> IF i = 1 THEN PyStr(<<"{{name}}">>)
                                ELSE PyStr(<<"{{s1_result}}", "-world">>)]
      [] tool_name = "alpha" -> [n \in {"count"} |-> PyInt(1)]
      [] OTHER -> <<>>

Conditions ==
    {PyNone, PyStr(<<"{{flag}}", "==", "true">>), PyStr(<<"{{flag}}">>)}

FailurePolicies ==
    {<<"stop", 3>>, <<"continue", 3>>, <<"retry", 0>>, <<"retry", 1>>, <<"retry", 2>>}

\* A step at position i: the registered tool beta under any failure policy,
\* another tool under the stop or a retry policy, or a conditioned step of
\* beta.
StepsAt(i) ==
    LET step(tool, condition, policy) ==
            WorkflowStep("s" \o ToString(i), "step " \o ToString(i), tool,
                         StepParameters(tool, i), condition, policy[2], policy[1])
    IN  {step("beta", PyNone, policy) : policy \in FailurePolicies}
        \cup {step(tool, PyNone, policy) :
                 tool \in StepTools \ {"beta"}, policy \in {<<"stop", 3>>, <<"retry", 1>>}}
        \cup {step("beta", condition, <<"stop", 3>>) : condition \in Conditions}

RECURSIVE StepLists(_)
StepLists(n) ==
    IF n = 0 THEN {<<>>}
    ELSE {Append(steps, s) : steps \in StepLists(n - 1), s \in StepsAt(n)}

Workflows ==
    {Workflow("w", steps, <<<<"flag", PyBool(FALSE)>>, <<"name", PyStr(<<"hello">>)>>>>) :
        steps \in UNION {StepLists(n) : n \in 1..MaxSteps}}

CallerVariables == {<<>>, <<<<"flag", PyBool(TRUE)>>>>}

-----------------------------------------------------------------------------
(* Initial states and specifications.                                      *)

\* OpenRouterClient.__init__
InitRouter(ceilings) ==
    /\ rpc = "idle"
    /\ rcall = [messages |-> <<>>, model |-> <<>>, tools |-> FALSE, stream |-> FALSE]
    /\ request = <<>>
    /\ reply = <<>>
    /\ max_retries \in ceilings
    /\ attempt = 0
    /\ sent = [default |-> 0, groq |-> 0, ollama |-> 0]
    /\ statuses = <<>>
    /\ slept = <<>>
    /\ rout = NoOutcome

\* No workflow in hand, or one of `workflows` not yet executed.
InitWorkflow(workflows) ==
    /\ wf \in workflows
    /\ wpc = "idle"
    /\ wi = 0
    /\ wcall = NoInvocation
    /\ invoked = <<>>
    /\ wout = NoOutcome
    /\ templates = BuiltInTemplates
    /\ made = <<>>

NoWorkflow == {Workflow("w", <<>>, <<>>)}

NoCall ==
    [seq |-> 0, tool |-> "none", found |-> FALSE, wasEnabled |-> FALSE,
     kwargs |-> <<>>, invalid |-> {}, body |-> NoBody, bodyRan |-> FALSE, raised |-> FALSE,
     result |-> ToolResult(FALSE, PyNone, PyNone)]

\* The argument sets of the callers of the registry proper: a well-formed call
\* of each tool, and a call without arguments.
KwargsFew(t) ==
    CASE t = "T1" -> {<<>>, [n \in {"count"} |-> PyInt(2)]}
      [] t = "T2" -> {<<>>, [n \in {"workflow_id"} |-> PyStr(<<"a">>)]}
      [] t = "T3" -> {<<>>, [n \in {"path"} |-> PyStr(<<"a">>)]}
      [] OTHER -> {<<>>}

\* BaseTool.__init__ of every tool object.
InitTools ==
    /\ enabled = [t \in ToolIds |-> TRUE]
    /\ execution_count = [t \in ToolIds |-> 0]
    /\ error_count = [t \in ToolIds |-> 0]
    /\ calls = [t \in ToolIds |-> 0]
    /\ failures = [t \in ToolIds |-> 0]
    /\ last = NoCall
    /\ handled = <<>>

\* ToolRegistry.__init__
InitRegistry ==
    /\ tools = <<>>
    /\ categories = <<>>
    /\ InitTools

NextRegistry ==
    \/ \E t \in ToolIds : RegisterTool(t)
    \/ \E n \in Names : UnregisterTool(n)
    \/ \E t \in ToolIds, b \in BOOLEAN : SetEnabled(t, b)
    \/ \E n \in Names : \E kwargs \in KwargsFew(GetTool(n)), body \in BodyOutcomes :
          ExecuteTool(n, kwargs, body)

InitSpecRegistry == InitRegistry /\ InitRouter({MaxRetriesDefault}) /\ InitWorkflow(NoWorkflow)

SpecRegistry == InitSpecRegistry /\ [][NextRegistry]_vars

\* The registry as the CLI start-up leaves it: each tool provider's tools
\* registered once, in some order.
RECURSIVE RegisterAll(_, _)
RegisterAll(reg, ts) ==
    IF ts = <<>> THEN reg ELSE RegisterAll(Registered(reg, Head(ts)), Tail(ts))

InitStartup ==
    /\ \E ts \in {<<"T1", "T3">>, <<"T3", "T2">>} :
          LET reg == RegisterAll([tools |-> <<>>, categories |-> <<>>], ts)
          IN  tools = reg.tools /\ categories = reg.categories
    /\ InitTools

\* Callers that execute registered tools with arbitrary argument sets.
NextValidate ==
    \E n \in Names : \E kwargs \in KwargsOf(GetTool(n)), body \in BodyOutcomes :
        ExecuteTool(n, kwargs, body)

InitSpecValidate == InitStartup /\ InitRouter({MaxRetriesDefault}) /\ InitWorkflow(NoWorkflow)

SpecValidate == InitSpecValidate /\ [][NextValidate]_vars

\* The interactive loop on the tool calls of the model, the executions they
\* start being interleaved at the await of the tool body.
NextInteractive ==
    \/ \E n \in Names \cup {"gamma"}, answer \in BOOLEAN :
          \E value \in KwargsFew(GetTool(n)), json \in BOOLEAN :
              HandleToolCall([name |-> n, arguments |-> [json |-> json, value |-> value]],
                             answer)
    \/ \E k \in 1..MaxCalls, body \in BodyOutcomes : BodyReturns(k, body)

SpecInteractive == InitSpecValidate /\ [][NextInteractive]_vars

NextRouter ==
    \/ \E messages \in MessageLists, model \in ModelIds, stream \in BOOLEAN :
          ChatCompletion(messages, model, FALSE, stream)
    \/ \E resp \in Responses : DefaultAttempt(resp)
    \/ \E resp \in Responses : GroqRequest(resp)
    \/ \E resp \in Responses : OllamaAvailable(resp)
    \/ \E resp \in Responses : OllamaRequest(resp)

InitSpecRouter == InitRegistry /\ InitRouter(0..MaxRetriesBound) /\ InitWorkflow(NoWorkflow)

SpecRouter == InitSpecRouter /\ [][NextRouter]_vars

\* The same completions when every request the hosted loop awaits is
\* answered in the end: the HTTP client returns or raises (its timeout).
SpecRequestLoop ==
    /\ InitSpecRouter
    /\ [][NextRouter]_vars
    /\ WF_vars(\E resp \in Responses : DefaultAttempt(resp))

\* Conversations of several turns on each provider path, with and without
\* tool definitions.
NextChat ==
    \/ \E messages \in ChatMessageLists, model \in ChatModelIds, with_tools \in BOOLEAN :
          ChatCompletion(messages, model, with_tools, FALSE)
    \/ \E resp \in Responses : DefaultAttempt(resp)
    \/ \E resp \in Responses : GroqRequest(resp)
    \/ \E resp \in Responses : OllamaAvailable(resp)
    \/ \E resp \in Responses : OllamaRequest(resp)
    \/ \E resp \in Responses, text \in ModelTexts : OllamaToolRequest(resp, text)

InitSpecChat == InitRegistry /\ InitRouter({0}) /\ InitWorkflow(NoWorkflow)

SpecChat == InitSpecChat /\ [][NextChat]_vars

\* Callers of the workflow engine, and the external actor that cancels.
NextWorkflow ==
    \/ \E variables \in CallerVariables : ExecuteWorkflow(variables)
    \/ \E body \in StepBodyOutcomes \cup Echo(wcall) : ToolReturns(body)
    \/ Cancel

\* Callers that instantiate workflows from a template and execute them.
NextTemplate ==
    \/ \E template_name \in {"review", "missing"}, variables \in CallerVariables :
          CreateWorkflowFromTemplate(template_name, "w" \o ToString(Len(made) + 1), variables)
    \/ \E variables \in CallerVariables : FromTemplate /\ ExecuteWorkflow(variables)
    \/ \E body \in StepBodyOutcomes : ToolReturns(body)
    \/ Cancel

InitSpecTemplate == InitStartup /\ InitRouter({MaxRetriesDefault}) /\ InitWorkflow(NoWorkflow)

SpecTemplate == InitSpecTemplate /\ [][NextTemplate]_vars

InitSpecWorkflow == InitStartup /\ InitRouter({MaxRetriesDefault}) /\ InitWorkflow(Workflows)

SpecWorkflow == InitSpecWorkflow /\ [][NextWorkflow]_vars

\* Workflows of one step whose parameter tree (a string, a list and a map
\* nested in it) holds placeholders, with variable bags in either order whose
\* values are strings, numbers and strings that hold a placeholder themselves
\* (as "timestamp": "{{now}}" of the research template).
InitSpecSubstitute ==
    LET Pieces == {"{{a}}", "{{b}}", "{{c}}", "{{timestamp}}", "x-"}
        Texts == UNION {[1..n -> Pieces] : n \in 1..MaxPieces}
        Values == {PyStr(<<"v">>), PyInt(7), PyStr(<<"{{b}}">>), PyStr(<<"{{now}}">>)}
        Bags == {<<>>}
                \cup {<<<<k, v>>>> : k \in {"a", "b", "timestamp"}, v \in Values}
                \cup {<<<<"a", v>>, <<"b", u>>>> : v \in Values, u \in Values}
                \cup {<<<<"b", v>>, <<"a", u>>>> : v \in Values, u \in Values}
        tree(text) ==
            [n \in {"path", "ratio"} |->
                IF n = "path" THEN PyStr(text)
                ELSE PyList(<<PyStr(text), PyDict(<<<<"k", PyStr(text)>>>>), PyInt(1)>>)]
    IN  /\ InitStartup
        /\ InitRouter({MaxRetriesDefault})
        /\ InitWorkflow({Workflow("w", <<WorkflowStep("s1", "step 1", "beta", tree(text),
                                                      PyNone, 3, "stop")>>, bag) :
                            text \in Texts, bag \in Bags})

SpecSubstitute == InitSpecSubstitute /\ [][NextWorkflow]_vars

\* The three public entry points side by side. They share no state that any
\* of them writes, so a behaviour exercises one of them.
EntryWorkflows == {w \in Workflows : Len(w.steps) = 1}

NextExecute ==
    \E n \in Names : \E kwargs \in KwargsFew(GetTool(n)), body \in BodyOutcomes :
        ExecuteTool(n, kwargs, body)

NextEntry ==
    \/ rpc = "idle" /\ wpc = "idle" /\ NextExecute
    \/ last.seq = 0 /\ wpc = "idle" /\ NextRouter
    \/ last.seq = 0 /\ rpc = "idle" /\ NextWorkflow

InitSpecEntry ==
    InitStartup /\ InitRouter(0..MaxRetriesBound) /\ InitWorkflow(EntryWorkflows)

SpecEntry == InitSpecEntry /\ [][NextEntry]_vars

-----------------------------------------------------------------------------
(* Properties of the registry and of the safe-execution wrapper.           *)

\* The names listed in the category index.
IndexedNames == UNION {Range(categories[c]) : c \in DOMAIN categories}

\* C1: after any sequence of register and unregister operations the names in
\* the category index are exactly the keys of the name-to-tool map.
C1_IndexMatchesMap == IndexedNames = DictKeys(tools)

\* C2: an execute of a registered, enabled tool with an argument set that
\* misses a required parameter, has a value of another type than declared,
\* violates a declared min/max or is outside a declared enum returns a failure
\* result, and the tool's execution body is not invoked.
C2_InvalidArgumentsNeverReachBody ==
    (last.seq > 0 /\ last.found /\ last.wasEnabled /\ last.invalid # {})
        => (~last.result.success /\ ~last.bodyRan)

\* Whether text ends with the pieces of message.
EndsWith(text, message) ==
    /\ Len(message) <= Len(text)
    /\ SubSeq(text, Len(text) - Len(message) + 1, Len(text)) = message

\* C3: when the execution body raises, execute returns a failure result that
\* carries the exception's message, no exception reaches the caller, and that
\* call adds exactly one to the tool's execution counter and one to its error
\* counter.
C3_RaisingBodyBecomesFailure ==
    [][(last'.seq = last.seq + 1 /\ last'.bodyRan /\ last'.body.kind = "raise")
        => /\ ~last'.raised
           /\ ~last'.result.success
           /\ last'.result.error.t = "str"
           /\ EndsWith(last'.result.error.v, last'.body.value.v)
           /\ execution_count' = [execution_count EXCEPT ![last'.tool] = @ + 1]
           /\ error_count' = [error_count EXCEPT ![last'.tool] = @ + 1]]_vars

C3_Witness ==
    /\ last.bodyRan /\ last.body.kind = "raise"
    /\ execution_count[last.tool] = 2 /\ error_count[last.tool] = 1

\* C4: after N calls of the safe-execution wrapper of a tool, whatever their
\* outcomes, execution_count is N and error_count is the number of calls that
\* returned a failure result.
C4_CountersMatchCalls ==
    \A t \in ToolIds :
        execution_count[t] = calls[t] /\ error_count[t] = failures[t]

\* C5: an execute for a name that is not registered or for a disabled tool
\* returns a failure result with an error message, raises nothing, runs no
\* tool body and changes no tool counter.
C5_UnknownOrDisabledIsRefused ==
    [][(last'.seq = last.seq + 1 /\ (~last'.found \/ ~last'.wasEnabled))
        => /\ ~last'.result.success
           /\ last'.result.error.t = "str"
           /\ ~last'.raised
           /\ ~last'.bodyRan
           /\ UNCHANGED <<execution_count, error_count>>]_vars

C5_Witness ==
    /\ last.seq = 2 /\ last.found /\ ~last.wasEnabled
    /\ ~last.result.success
    /\ execution_count[last.tool] = 1

\* When a constraint of a parameter counts as declared: k is a schema keyword.
DeclaredValue(p, k) ==
    CASE k = "enum" -> p.enum
      [] k = "pattern" -> p.pattern
      [] k = "minimum" -> p.min_value
      [] k = "maximum" -> p.max_value
      [] k = "minLength" -> p.min_length
      [] OTHER -> p.max_length

DeclaredNotNone(p, k) == ~IsNone(DeclaredValue(p, k))

DeclaredNonEmpty(p, k) ==
    IF k \in {"enum", "pattern"} THEN Truthy(DeclaredValue(p, k))
    ELSE ~IsNone(DeclaredValue(p, k))

\* Whether a parameters schema is the one the declaration list P gives.
SchemaFollows(schema, P, declares(_, _)) ==
    LET IsRequired(p) == p.required
        R == SelectSeq(P, IsRequired)
    IN  /\ schema.required = [j \in 1..Len(R) |-> R[j].name]
        /\ DOMAIN schema.properties = {P[j].name : j \in 1..Len(P)}
        /\ \A j \in 1..Len(P) :
              LET entry == schema.properties[P[j].name]
              IN  /\ entry["type"] = PyStr(<<P[j].type>>)
                  /\ \A k \in {"enum", "pattern", "minimum", "maximum",
                               "minLength", "maxLength"} :
                        /\ (k \in DOMAIN entry) = declares(P[j], k)
                        /\ k \in DOMAIN entry => entry[k] = DeclaredValue(P[j], k)

\* C6: for every tool handed to the providers, with P its get_parameters(),
\* `required` is exactly the names of the required parameters of P, and
\* `properties` has exactly one entry per parameter of P, with its type and
\* with a keyword for each declared constraint and for no other.
C6_DefinitionsMatchParameters ==
    \A i \in 1..Len(GetToolDefinitions) :
        SchemaFollows(GetToolDefinitions[i].function.parameters,
                      GetParameters(GetEnabledTools[i]), DeclaredNotNone)

\* C6 as the code has it: a tool that carries a schema dict in its attribute
\* `parameters` is handed over with that dict as it stands; every other tool
\* has `required` and `properties` derived from get_parameters(), with the
\* enum and pattern keywords present exactly when the declared value is
\* non-empty and the min/max/length keywords exactly when it is not None.
C6_DefinitionsMatchDictOrParameters ==
    \A i \in 1..Len(GetToolDefinitions) :
        LET t == GetEnabledTools[i]
            schema == GetToolDefinitions[i].function.parameters
        IN  IF HasParametersDict(t) THEN schema = WorkflowToolSchema
            ELSE SchemaFollows(schema, GetParameters(t), DeclaredNonEmpty)

C6_Witness ==
    /\ Len(GetToolDefinitions) = 2
    /\ GetEnabledTools = <<"T3", "T2">>
    /\ "pattern" \notin DOMAIN GetToolDefinitions[1].function.parameters.properties["ratio"]
    /\ "pattern" \in DOMAIN GetToolDefinitions[1].function.parameters.properties["path"]

-----------------------------------------------------------------------------
(* Properties of the chat provider routing.                                *)

\* The provider the claimed routing order gives a model id.
ClaimedPath(model) ==
    CASE Len(model) >= 2 /\ Head(model) = "ollama" -> "ollama"
      [] (Len(model) >= 2 /\ Head(model) = "groq") \/ model \in GroqModels -> "groq"
      [] OTHER -> "default"

\* C8: a completion sends requests to one provider only: the local one for an
\* id with the ollama/ prefix (whatever follows the prefix), else Groq for an
\* id with the groq/ prefix or a known Groq id, else the default provider.
C8_OneProviderPath ==
    /\ \A b \in DOMAIN sent : sent[b] > 0 => b = ClaimedPath(rcall.model)
    /\ rpc \in {"default", "groq", "ollama"} => rpc = ClaimedPath(rcall.model)
    /\ rpc = "ollama_chat" => ClaimedPath(rcall.model) = "ollama"

C8_Witness ==
    /\ rcall.model = <<"ollama", "llama3-8b-8192">>
    /\ sent.ollama = 2 /\ rpc = "done"

\* C9: once the backend has answered an attempt with HTTP 401 or 404, the call
\* sends no further request, whatever the attempt number and the ceiling.
C9_NoRequestAfter401Or404 ==
    [][(statuses # <<>> /\ statuses[Len(statuses)] \in {401, 404})
        => (rpc = "done" /\ sent' = sent)]_vars

C9_Witness ==
    /\ statuses = <<429, 401>> /\ max_retries = 2 /\ attempt = 1
    /\ rpc = "done" /\ sent.default = 2

\* C10: the caller of a completion tells a 401 from a 404 from a generic
\* failure by the kind of the error it receives: the authentication kind, the
\* not-found kind, and the request-failed kind.
C10_DistinctErrorKinds ==
    (rpc = "done" /\ rout.kind = "raise" /\ sent.default > 0)
        => LET status == statuses[Len(statuses)]
           IN  rout.exc.type =
                  CASE status = 401 -> "AuthenticationError"
                    [] status = 404 -> "ModelNotFoundError"
                    [] status = 429 -> "RateLimitError"
                    [] OTHER -> "OpenRouterError"

-----------------------------------------------------------------------------
(* Properties of the public entry points together.                         *)

-----------------------------------------------------------------------------
(* Properties of the retry loop.                                           *)

\* The answers a call has received were all of one status.
AllAnswers(status) ==
    /\ statuses # <<>>
    /\ \A i \in 1..Len(statuses) : statuses[i] = status

\* C11: when a hosted backend (default or Groq path) answers every attempt
\* with HTTP 429, the call sends max_retries + 1 requests, sleeps a backoff
\* delay before each retry, and ends with an error of the rate-limit kind.
C11_RateLimitRetriedToCeiling ==
    (rpc = "done" /\ Route(rcall.model) \in {"default", "groq"} /\ AllAnswers(429))
        => /\ Len(statuses) = max_retries + 1
           /\ Len(slept) = max_retries
           /\ rout.kind = "raise"
           /\ rout.exc.type = "RateLimitError"

\* C12: on the default path a network-level failure or an HTTP 5xx answer on
\* an attempt below the retry ceiling is followed, after a backoff delay, by
\* another attempt; the call fails only once max_retries retries were made.
C12_FailureBelowCeilingIsRetried ==
    [][(rpc = "default" /\ attempt < max_retries /\ Len(statuses') = Len(statuses) + 1
        /\ (statuses'[Len(statuses')] = 0 \/ statuses'[Len(statuses')] >= 500))
        => /\ rpc' = "default"
           /\ attempt' = attempt + 1
           /\ Len(slept') = Len(slept) + 1]_vars

-----------------------------------------------------------------------------
(* Properties of the tool-call emulation for local models. *)

\* A completion on the emulation path that the backend answered with a text.
EmulatedAnswer ==
    /\ rpc = "done"
    /\ Route(rcall.model) = "ollama"
    /\ rcall.tools
    /\ reply # <<>>

\* An entry of the shape the emulation prompt asks for: an object with an
\* object under "function".
WellShaped(entry) ==
    /\ entry.t = "dict"
    /\ "function" \in DictKeys(entry.v)
    /\ DictValue(entry.v, "function").t = "dict"

\* The text offers no tool call: each tool_calls value in it is not a list or
\* lists no entry of the right shape.
OffersNoCall(text) ==
    \A i \in 1..Len(text) :
        (text[i].k = "json" /\ "tool_calls" \in DictKeys(text[i].v.v))
            => LET value == DictValue(text[i].v.v, "tool_calls")
               IN  \/ value.t # "list"
                   \/ \A n \in 1..Len(value.v) : ~WellShaped(value.v[n])

\* C13: whatever text the local model returns, an emulated completion raises
\* nothing, and when the text is truncated or malformed, or its tool_calls
\* value is not a list or holds only entries of the wrong shape, the response
\* has no tool calls and the raw text as its content.
C13_EveryTextDegradesToContent ==
    EmulatedAnswer
        => /\ rout.kind = "response"
           /\ (OffersNoCall(reply[1])
                  => /\ rout.message.tool_calls = <<>>
                     /\ rout.message.content = PyStr(reply[1]))

\* C14: in the result of an emulated completion the content is null exactly
\* when the parser recovered at least one tool call, and when it recovered
\* none the message has no tool calls and its content is the raw text.
C14_ContentNullIffCallsRecovered ==
    (EmulatedAnswer /\ rout.kind = "response")
        => LET recovered == ParseToolCalls(reply[1]).calls
           IN  /\ (rout.message.content = PyNone) <=> (recovered # <<>>)
               /\ rout.message.tool_calls = recovered
               /\ recovered = <<>> => rout.message.content = PyStr(reply[1])

C14_Witness ==
    /\ EmulatedAnswer
    /\ rout.kind = "response"
    /\ Len(reply[1]) = 3
    /\ Len(rout.message.tool_calls) = 2
    /\ rout.message.content = PyNone

\* C15: in every tool call an emulated completion hands to its caller,
\* function.arguments is a JSON-encoded string and not a parsed object,
\* whatever form the model gave the arguments in its text.
C15_ArgumentsAreAString ==
    (EmulatedAnswer /\ rout.kind = "response")
        => \A i \in 1..Len(rout.message.tool_calls) :
              rout.message.tool_calls[i].function.arguments.t = "str"

\* C16: the tool calls of one assistant turn produced by the emulation have
\* pairwise distinct ids, also when some ids come from the model and others
\* are synthesized as call_<index>.
C16_IdsAreDistinct ==
    (EmulatedAnswer /\ rout.kind = "response")
        => \A i, j \in 1..Len(rout.message.tool_calls) :
              i # j => rout.message.tool_calls[i].id # rout.message.tool_calls[j].id

\* The request of a finished completion went to a backend.
RequestSent == rpc = "done" /\ request # <<>>

\* The request lists the caller's messages one for one, in the caller's order.
SameList ==
    /\ Len(request) = Len(rcall.messages)
    /\ \A i \in 1..Len(request) :
          /\ request[i].role = rcall.messages[i].role
          /\ request[i].content = rcall.messages[i].content

\* The prompt of the emulation presents every message, the system turns in
\* front, and the other turns in the caller's order.
PromptKeepsOrder ==
    LET messages == rcall.messages
        lines == request[1].content
        at(i) == {n \in 1..Len(lines) : lines[n].content = messages[i].content}
    IN  /\ \A i \in 1..Len(messages) : at(i) # {}
        /\ \A i, j \in 1..Len(messages) :
              (i < j /\ messages[i].role # "system" /\ messages[j].role # "system")
                  => \A n \in at(i), k \in at(j) : n < k
        /\ \A i, j \in 1..Len(messages) :
              (messages[i].role = "system" /\ messages[j].role # "system")
                  => \A n \in at(i), k \in at(j) : n < k

\* C17: on every provider path the request sent to the backend presents
\* every message of the caller's list in the caller's order; on the emulation
\* path the system turns come first and the user, assistant and tool turns
\* are all present in their order.
C17_RequestKeepsMessages ==
    RequestSent
        => IF Route(rcall.model) = "ollama" /\ rcall.tools
           THEN PromptKeepsOrder
           ELSE SameList

-----------------------------------------------------------------------------
(* Properties of the workflow engine's state machines. *)

Terminal == {"completed", "failed", "cancelled"}

\* C18: a workflow's status changes only along pending -> running and
\* running -> completed | failed | cancelled: a workflow in a terminal status
\* never leaves it, and execute_workflow never returns a workflow whose
\* status is pending or running.
C18_WorkflowStatusEdges ==
    [][/\ wf.status = "running" => wf'.status \in {"running"} \cup Terminal
       /\ wf.status \in Terminal => wf'.status = wf.status
       /\ (wpc # "done" /\ wpc' = "done") => wf'.status \in Terminal]_vars

\* The status changes a step has gone through, as pairs <<from, to>>.
StatusEdges(step) ==
    {<<step.history[n], step.history[n + 1]>> : n \in 1..(Len(step.history) - 1)}

\* The number of times the step was reset from failed to pending.
Resets(step) ==
    Cardinality({n \in 1..(Len(step.history) - 1) :
                    step.history[n] = "failed" /\ step.history[n + 1] = "pending"})

\* The step has changed status along the allowed edges only, was reset to
\* pending only under the retry policy and each time with its retry counter
\* below max_retries, and nothing followed completed or skipped.
StepFollows(step, allowed) ==
    /\ StatusEdges(step) \subseteq allowed
    /\ step.retry_count = Resets(step)
    /\ Resets(step) > 0 => (step.on_failure = "retry" /\ Resets(step) <= step.max_retries)
    /\ \A n \in 1..(Len(step.history) - 1) : step.history[n] \notin {"completed", "skipped"}

\* C19 as stated: a step's status changes only along pending -> running ->
\* completed | failed | skipped, plus failed -> pending, the latter only under
\* the retry policy with the retry counter below max_retries, and a
\* completed or skipped step never runs again.
C19_StepStatusEdges ==
    \A i \in 1..Len(wf.steps) :
        StepFollows(wf.steps[i],
                    {<<"pending", "running">>, <<"running", "completed">>,
                     <<"running", "failed">>, <<"running", "skipped">>,
                     <<"failed", "pending">>})

\* C19 as the code has it: within one execution a step's status changes only
\* along pending -> running -> completed | failed, pending -> skipped, and
\* failed -> pending; the reset to pending happens only under the retry
\* policy with the retry counter below max_retries, and a completed or
\* skipped step never runs again.
C19_StepStatusEdgesSkipFromPending ==
    \A i \in 1..Len(wf.steps) :
        StepFollows(wf.steps[i],
                    {<<"pending", "running">>, <<"running", "completed">>,
                     <<"running", "failed">>, <<"pending", "skipped">>,
                     <<"failed", "pending">>})

C19_Witness ==
    /\ wpc = "done"
    /\ \E i, j \in 1..Len(wf.steps) :
          /\ wf.steps[i].history =
                <<"pending", "running", "failed", "pending", "running", "completed">>
          /\ wf.steps[j].history = <<"pending", "skipped">>

\* The workflow was marked cancelled while the tool call of step wi is in
\* flight.
CancelledInFlight == wpc = "await" /\ wf.status = "cancelled"

\* C20: when the workflow is marked cancelled while the tool call of step k
\* is in flight, the call is not interrupted (it stays in flight until the
\* tool returns, and its outcome is recorded on step k), and every step
\* after k stays pending: no tool is invoked for it and its status, result
\* and error do not change.
C20_CancelLeavesLaterStepsPending ==
    [][/\ (wpc = "await" /\ wf.status = "running" /\ wf'.status = "cancelled")
            => (wpc' = "await" /\ wcall' = wcall /\ wf'.steps = wf.steps)
       /\ CancelledInFlight
            => LET before == wf.steps[wi].history
                   after == wf'.steps[wi].history
               IN  /\ Len(after) > Len(before)
                   /\ after[Len(before) + 1] \in {"completed", "failed"}
                   /\ \A j \in (wi + 1)..Len(wf.steps) :
                         /\ wf'.steps[j] = wf.steps[j]
                         /\ wf.steps[j].status = "pending"
                   /\ \A n \in (Len(invoked) + 1)..Len(invoked') :
                         invoked'[n].step = wf.steps[wi].id]_vars

C20_Witness ==
    /\ wpc = "done"
    /\ wf.status = "cancelled"
    /\ Len(wf.steps) = 2
    /\ wf.steps[1].history = <<"pending", "running", "completed">>
    /\ wf.steps[2].history = <<"pending">>
    /\ wf.steps[2].result = PyNone
    /\ Len(invoked) = 1

-----------------------------------------------------------------------------
(* Properties of conditions, variables and failure policies in a run. *)

\* The tool of step i was invoked.
Invoked(i) == \E n \in 1..Len(invoked) : invoked[n].step = wf.steps[i].id

\* The condition, read as the boolean expression it spells, is false for the
\* variable bag: `{{flag}}` and `{{flag}} == true` are false when flag is.
SpellsFalse(condition, variables) ==
    /\ condition \in {PyStr(<<"{{flag}}">>), PyStr(<<"{{flag}}", "==", "true">>)}
    /\ "flag" \in DictKeys(variables)
    /\ DictValue(variables, "flag") = PyBool(FALSE)

\* C21: a step whose condition is false for the variable bag, in particular
\* `{{flag}} == true` with flag set to false, ends in status skipped and its
\* tool is not invoked.
C21_FalseConditionSkips ==
    \A i \in 1..Len(wf.steps) :
        (wf.steps[i].status # "pending" /\ SpellsFalse(wf.steps[i].condition, wf.variables))
            => /\ wf.steps[i].status = "skipped"
               /\ ~Invoked(i)

\* eval raises on the step's condition with the variable bag substituted.
EvaluationFails(step, variables) ==
    /\ Truthy(step.condition)
    /\ Eval(ReplaceEach(step.condition.v, variables)).raised

\* C22: when the evaluation of a step's condition fails, the condition counts
\* as satisfied: the step is executed and not skipped, and the failure does
\* not abort the workflow.
C22_FailedEvaluationRunsStep ==
    \A i \in 1..Len(wf.steps) :
        (wf.steps[i].status # "pending" /\ EvaluationFails(wf.steps[i], wf.variables))
            => /\ wf.steps[i].history[2] = "running"
               /\ "skipped" \notin Range(wf.steps[i].history)
               /\ Invoked(i)
               /\ wpc = "done" => wf.error # PyStr(<<"name 'true' is not defined">>)

C22_Witness ==
    /\ wpc = "done"
    /\ wf.status = "completed"
    /\ \E i \in 1..Len(wf.steps) :
          /\ EvaluationFails(wf.steps[i], wf.variables)
          /\ wf.steps[i].status = "completed"
          /\ Invoked(i)

\* Step i has succeeded with a payload of the given kinds.
SucceededWith(i, kinds) ==
    /\ wf.steps[i].status = "completed"
    /\ wf.steps[i].result.result.t \in kinds

\* The variable bag maps <id>_result of step i to the step's payload.
ResultStored(i) ==
    /\ (wf.steps[i].id \o "_result") \in DictKeys(wf.variables)
    /\ DictValue(wf.variables, wf.steps[i].id \o "_result") = wf.steps[i].result.result

\* No invocation of a step after i was handed the placeholder of step i's
\* result as literal text.
PlaceholderReplaced(i) ==
    \A n \in 1..Len(invoked) :
        \A j \in (i + 1)..Len(wf.steps) :
            invoked[n].step = wf.steps[j].id
                => \A k \in DOMAIN invoked[n].parameters :
                      invoked[n].parameters[k].t = "str"
                          => Placeholder(wf.steps[i].id \o "_result")
                                \notin Range(invoked[n].parameters[k].v)

\* C23: after a step succeeds with a payload that is a structured object,
\* the empty one included, the variable bag maps <id>_result to the payload,
\* and a later step whose parameter holds the placeholder of that key is run
\* with the payload's value in its place.
C23_ObjectPayloadIsStored ==
    \A i \in 1..Len(wf.steps) :
        SucceededWith(i, {"dict"}) => (ResultStored(i) /\ PlaceholderReplaced(i))

\* The invocation of step i was answered by an echo tool: the step's payload
\* is the string parameter the tool was called with.
Echoed(i) ==
    /\ wf.steps[i].status = "completed"
    /\ \E n \in 1..Len(invoked) :
          /\ invoked[n].step = wf.steps[i].id
          /\ "path" \in DOMAIN invoked[n].parameters
          /\ invoked[n].parameters["path"] = wf.steps[i].result.result

\* A run of two steps of an echo tool, s1 called with hello and s2 with
\* {{s1_result}}-world, has returned.
EchoRun ==
    /\ wpc = "done"
    /\ Len(wf.steps) = 2
    /\ wf.steps[2].parameters = [n \in {"path"} |-> PyStr(<<"{{s1_result}}", "-world">>)]
    /\ Echoed(1)
    /\ wf.steps[1].result.result = PyStr(<<"hello">>)
    /\ Echoed(2)

\* C24: with an echo tool, the workflow of s1 calling echo with hello and
\* s2 calling echo with {{s1_result}}-world ends completed with the payload
\* of s2 equal to hello-world.
C24_StringPayloadIsReferenced ==
    EchoRun
        => /\ wf.status = "completed"
           /\ wf.steps[2].result.result = PyStr(<<"hello", "-world">>)

\* Step i was never processed: it is as its constructor left it and no tool
\* was invoked for it.
Untouched(i) ==
    /\ wf.steps[i].history = <<"pending">>
    /\ wf.steps[i].result = PyNone
    /\ wf.steps[i].error = PyNone
    /\ ~Invoked(i)

\* C25: when a step with on_failure stop fails, the workflow ends failed
\* with the step's error as its error, and every later step stays pending
\* with its tool never invoked.
C25_StopEndsTheRun ==
    \A i \in 1..Len(wf.steps) :
        (wpc = "done" /\ wf.steps[i].status = "failed" /\ wf.steps[i].on_failure = "stop")
            => /\ wf.status = "failed"
               /\ wf.error = wf.steps[i].error
               /\ \A j \in (i + 1)..Len(wf.steps) : Untouched(j)

C25_Witness ==
    /\ wpc = "done"
    /\ Len(wf.steps) = 2
    /\ wf.steps[1].on_failure = "stop"
    /\ wf.steps[1].history = <<"pending", "running", "failed">>
    /\ wf.status = "failed"
    /\ wf.error = PyStr(<<"no such file">>)
    /\ Untouched(2)

\* Step i failed under the stop policy, which ends the loop.
StoppedAt(i) == wf.steps[i].status = "failed" /\ wf.steps[i].on_failure = "stop"

\* The loop of the returned run ended with the workflow still running: no
\* step stopped it and nobody cancelled it.
LoopRanOut ==
    /\ wpc = "done"
    /\ wf.status # "cancelled"
    /\ \A i \in 1..Len(wf.steps) : ~StoppedAt(i)

\* C26: when a step with on_failure continue fails, the later steps are
\* still processed, and when the loop ends with the workflow still running
\* the final status is failed if some step is failed and completed
\* otherwise, skipped steps not counting as failures.
C26_ContinueGoesOn ==
    LoopRanOut
        => /\ \A i \in 1..Len(wf.steps) : wf.steps[i].status \notin {"pending", "running"}
           /\ wf.status = IF \E i \in 1..Len(wf.steps) : wf.steps[i].status = "failed"
                          THEN "failed" ELSE "completed"

C26_Witness ==
    /\ LoopRanOut
    /\ Len(wf.steps) = 2
    /\ wf.steps[1].on_failure = "continue"
    /\ wf.steps[1].status = "failed"
    /\ wf.steps[2].status = "completed"
    /\ Invoked(2)
    /\ wf.status = "failed"

\* The number of times step i was started.
Attempts(i) ==
    Cardinality({n \in 1..Len(wf.steps[i].history) : wf.steps[i].history[n] = "running"})

\* The number of times the tool of step i was invoked.
Invocations(i) ==
    Cardinality({n \in 1..Len(invoked) : invoked[n].step = wf.steps[i].id})

\* C27: a step with on_failure retry and max_retries = m whose tool fails on
\* every invocation is invoked m + 1 times in one run, and ends failed with
\* its retry counter equal to m.
C27_RetriedToMaxRetries ==
    \A i \in 1..Len(wf.steps) :
        (/\ wpc = "done"
         /\ wf.status # "cancelled"
         /\ wf.steps[i].on_failure = "retry"
         /\ wf.steps[i].status = "failed"
         /\ Invoked(i))
            => /\ Invocations(i) = wf.steps[i].max_retries + 1
               /\ Attempts(i) = wf.steps[i].max_retries + 1
               /\ wf.steps[i].retry_count = wf.steps[i].max_retries

\* The position in the step list of the step with the given id.
StepIndex(id) == CHOOSE i \in 1..Len(wf.steps) : wf.steps[i].id = id

\* C28: within one run the tools are invoked in the declared order of the
\* steps: at most one step is running at any moment, and when the tool of a
\* step is invoked every earlier step is completed, failed or skipped and
\* stays so.
C28_StepsRunInOrder ==
    /\ Cardinality({i \in 1..Len(wf.steps) : wf.steps[i].status = "running"}) <= 1
    /\ \A n, k \in 1..Len(invoked) :
          n < k => StepIndex(invoked[n].step) <= StepIndex(invoked[k].step)
    /\ \A j \in 1..Len(wf.steps) :
          Invoked(j) => \A i \in 1..(j - 1) :
                          wf.steps[i].status \in {"completed", "failed", "skipped"}

C28_Witness ==
    /\ wpc = "await"
    /\ Len(wf.steps) = 2
    /\ Len(invoked) = 3
    /\ wf.steps[1].history = <<"pending", "running", "failed", "pending", "running", "failed">>
    /\ wf.steps[2].status = "running"

-----------------------------------------------------------------------------
(* Properties of templates and of the merging of variables. *)

\* C29: after any sequence of instantiations and executions the templates
\* are as the engine's constructor built them, and an instantiation without
\* overrides gets the original default variables.
C29_TemplatesAreNeverChanged ==
    /\ templates = BuiltInTemplates
    /\ \A n \in 1..Len(made) :
          (made[n].found /\ made[n].variables = <<>>)
              => made[n].bag = BuiltInTemplates[made[n].template].variables

\* The bag holds the caller's value for every key of the caller's map and
\* the own value for every other key.
CallerWins(bag, own, caller) ==
    /\ DictKeys(bag) = DictKeys(own) \cup DictKeys(caller)
    /\ \A key \in DictKeys(caller) : DictValue(bag, key) = DictValue(caller, key)
    /\ \A key \in DictKeys(own) \ DictKeys(caller) : DictValue(bag, key) = DictValue(own, key)

\* C30: the caller's variables win on key collision: a workflow made from a
\* template holds the caller's value for every key of the caller's map and
\* the template's default for every other key, and a workflow that starts
\* to execute holds the caller's value for the caller's keys and its own
\* value for the others.
C30_CallerVariablesWin ==
    [][/\ \A n \in 1..Len(made') :
             made'[n].found
                 => CallerWins(made'[n].bag, BuiltInTemplates[made'[n].template].variables,
                               made'[n].variables)
       /\ (wpc = "idle" /\ wpc' # "idle")
            => \E variables \in CallerVariables :
                  CallerWins(wf'.variables, wf.variables, variables)]_vars

-----------------------------------------------------------------------------
\* Properties of the execution contract, of the parser and of the request loop

\* C31: every tool invocation made on behalf of a workflow step goes through
\* the Registry execute contract and the safe-execution wrapper: the tool
\* invoked is enabled, its arguments pass validation before its body runs, and
\* once the run is over the tool's execution counter has grown by one for
\* each of its invocations.
C31_StepsGoThroughTheRegistry ==
    /\ \A n \in 1..Len(invoked) :
          /\ enabled[invoked[n].tool]
          /\ ValidateParameters(invoked[n].tool, invoked[n].parameters)
    /\ wpc = "done" =>
          \A t \in ToolIds :
              execution_count[t] =
                  Cardinality({n \in 1..Len(invoked) : invoked[n].tool = t})

\* C38: once a workflow has been marked cancelled, execute_workflow returns it
\* with status cancelled: no step of the engine, neither the handling of a
\* failed step under the stop policy nor the computation of the final status,
\* gives a cancelled workflow another status.
C38_CancelledIsReturnedCancelled ==
    [][wf.status = "cancelled"
          => /\ wf'.status = "cancelled"
             /\ wpc' = "done" => wout' = ReturnedWorkflow]_vars

\* C39: after a workflow has been marked cancelled no further tool invocation
\* starts: the call in flight may end, but neither a later step nor a retry
\* of the step whose call failed after the cancellation invokes a tool.
C39_NoInvocationAfterCancel ==
    [][wf.status = "cancelled"
          => /\ invoked' = invoked
             /\ wpc' # "await"
             /\ \A i \in 1..Len(wf.steps) :
                   wf'.steps[i].retry_count = wf.steps[i].retry_count]_vars

\* The positions of the text that hold a well-formed JSON object with the key
\* tool_calls.
KeyedObjects(text) ==
    {i \in 1..Len(text) : text[i].k = "json" /\ "tool_calls" \in DictKeys(text[i].v.v)}

\* C34: when the model's text holds a well-formed JSON object with the key
\* tool_calls, the tool calls an emulated completion returns are those of the
\* first such object, whatever text precedes or follows it, further brace
\* characters and further JSON objects included.
C34_FirstObjectIsExtracted ==
    (EmulatedAnswer /\ rout.kind = "response" /\ KeyedObjects(reply[1]) # {})
        => LET text == reply[1]
               first == CHOOSE i \in KeyedObjects(text) :
                           \A j \in KeyedObjects(text) : i <= j
           IN  rout.message.tool_calls = ParseToolCalls(<<text[first]>>).calls

\* C35: for a tool_calls list, the calls returned are exactly the entries
\* that hold a `function` object, in their order: an entry without one, or
\* with a malformed one, is dropped alone, and an entry without id receives
\* an id of the form call_<index>.
C35_BadEntriesAreDroppedAlone ==
    (/\ EmulatedAnswer
     /\ rout.kind = "response"
     /\ Len(reply[1]) = 1
     /\ KeyedObjects(reply[1]) = {1}
     /\ DictValue(reply[1][1].v.v, "tool_calls").t = "list")
        => LET entries == DictValue(reply[1][1].v.v, "tool_calls").v
               kept == SelectSeq(entries, WellShaped)
               returned == rout.message.tool_calls
           IN  /\ Len(returned) = Len(kept)
               /\ \A i \in 1..Len(returned) :
                     /\ returned[i].function.name
                            = Get(DictValue(kept[i].v, "function"), "name", PyStr(<<>>))
                     /\ returned[i].id = Get(kept[i], "id", returned[i].id)
                     /\ "id" \notin DictKeys(kept[i].v)
                            => (returned[i].id.t = "str" /\ Head(returned[i].id.v) = "call_")

\* C37: for every sequence of backend responses and network failures, one
\* call of the hosted request loop sends at most max_retries + 1 requests and
\* then ends, by returning a response or by raising, also for statuses that
\* are neither 200 nor an error status: every request either ends the call or
\* uses up one of the attempts, and the call ends.
C37_RequestLoopEnds ==
    /\ [][rpc = "default"
             => /\ sent'.default = sent.default + 1
                /\ sent'.default <= max_retries + 1
                /\ \/ rpc' = "done" /\ rout'.kind \in {"response", "raise"}
                   \/ rpc' = "default" /\ attempt' = attempt + 1
                                       /\ attempt' <= max_retries]_vars
    /\ (rpc = "default") ~> (rpc = "done")

C37_Witness ==
    /\ rpc = "done"
    /\ max_retries = 2
    /\ statuses = <<204, 204, 204>>
    /\ sent.default = 3
    /\ slept = <<>>
    /\ rout.kind = "raise"

-----------------------------------------------------------------------------
\* Properties of variable substitution

\* One pass over a text: a placeholder whose key is in the bag becomes the
\* string form of the bag's value, the built-in now and timestamp become a
\* clock reading, and every other piece stays as it is.
RECURSIVE SinglePass(_, _)
SinglePass(text, bag) ==
    IF text = <<>> THEN <<>>
    ELSE LET piece == Head(text)
             keys == {k \in DictKeys(bag) : Placeholder(k) = piece}
         IN  (IF keys # {} THEN Str(DictValue(bag, CHOOSE k \in keys : TRUE))
              ELSE IF piece = "{{now}}" THEN <<"<isoformat>">>
              ELSE IF piece = "{{timestamp}}" THEN <<"<strftime>">>
              ELSE <<piece>>)
             \o SinglePass(Tail(text), bag)

\* The single pass on every string of a parameter tree.
RECURSIVE SinglePassTree(_, _)
SinglePassTree(obj, bag) ==
    CASE obj.t = "str" -> PyStr(SinglePass(obj.v, bag))
      [] obj.t = "dict" ->
            PyDict([i \in 1..Len(obj.v) |-> <<obj.v[i][1], SinglePassTree(obj.v[i][2], bag)>>])
      [] obj.t = "list" -> PyList([i \in 1..Len(obj.v) |-> SinglePassTree(obj.v[i], bag)])
      [] OTHER -> obj

\* C36: the parameter tree a step's tool is invoked with holds, in every
\* string of the tree, nested maps and lists included, the string form of the
\* bag's value wherever the step's parameter held a placeholder whose key is
\* in the variable bag, and the placeholder verbatim wherever the key is not
\* in the bag (the built-in now and timestamp apart); an unmatched
\* placeholder fails nothing.
C36_PlaceholdersBecomeBagValues ==
    wpc = "await"
        => LET given == wf.steps[wcall.step].parameters
           IN  /\ DOMAIN wcall.parameters = DOMAIN given
               /\ \A n \in DOMAIN given :
                     wcall.parameters[n] = SinglePassTree(given[n], wf.variables)

\* C40: the result of variable substitution does not depend on the order in
\* which the variable bag is iterated: the parameters a tool is invoked with
\* are those substitution gives for every other order of the same bag, text
\* inserted for one variable not being replaced again for another.
C40_SubstitutionIgnoresBagOrder ==
    wpc = "await"
        => \A p \in {q \in [1..Len(wf.variables) -> 1..Len(wf.variables)] :
                        \A i, j \in DOMAIN q : q[i] = q[j] => i = j} :
              SubstituteParameters(wf.steps[wcall.step].parameters,
                                   [i \in 1..Len(wf.variables) |-> wf.variables[p[i]]])
                  = wcall.parameters

-----------------------------------------------------------------------------
\* Properties of the interactive loop and of interleaved executions

\* C32: in the interactive loop, a call of the model to a tool flagged
\* requires_confirmation or flagged dangerous reaches ToolRegistry.execute_tool
\* only after the user has confirmed that call, and a call the user declined
\* is not executed.
C32_FlaggedToolsAreConfirmed ==
    \A k \in 1..Len(handled) :
        LET h == handled[k]
        IN  /\ (h.executed /\ h.tool # "none"
                   /\ (RequiresConfirmation(h.tool) \/ Dangerous(h.tool)))
                  => (h.asked /\ h.confirmed)
            /\ (h.asked /\ ~h.confirmed) => (~h.executed /\ ~h.invoked)

\* C33: when executions of a tool are interleaved, each suspended only while
\* its body is awaited, no counter update is lost: execution_count has grown
\* by the number of body invocations that are over and error_count by the
\* number of them that failed, so that once all have finished the counters
\* equal the numbers of invocations and of failed invocations.
C33_NoCounterUpdateIsLost ==
    \A t \in ToolIds :
        LET invocations == {k \in 1..Len(handled) : handled[k].tool = t /\ handled[k].invoked}
            over == {k \in invocations : handled[k].state = "returned"}
        IN  /\ execution_count[t] = Cardinality(over)
            /\ error_count[t] = Cardinality({k \in over : ~handled[k].success})

C33_Witness ==
    /\ Len(handled) = 2
    /\ handled[1].tool = handled[2].tool
    /\ handled[1].state = "returned" /\ handled[2].state = "returned"
    /\ handled[2].seen.executions = 0
    /\ handled[1].success /\ ~handled[2].success
    /\ execution_count[handled[1].tool] = 2
    /\ error_count[handled[1].tool] = 1

=============================================================================
